---- MODULE Spec2Model ----
(***************************************************************************)
(* Verification model of the workbench excerpt:                            *)
(*   - the save participant chain (mainThreadSaveParticipant.ts)           *)
(*   - the data-bound tree adapter DataTree (dataTree.ts)                  *)
(*   - the outline panel and its request oracle (outlinePanel.ts)          *)
(*   - the registration of SaveParticipant with TextFileEditorModel        *)
(* Each component has its own specification over the shared variable list; *)
(* a component's actions leave the other component's variables unchanged.  *)
(***************************************************************************)
EXTENDS Integers, Sequences, FiniteSets, TLC

(***************************************************************************)
(* Bounds of the model.                                                    *)
(***************************************************************************)
\* most code actions getCodeActions returns for one kind
MaxActions == 2
\* most edits the user types while a save is running
MaxUserEdits == 1
\* most times the data source changes the hierarchy it reports
MaxChanges == 1
\* most events the editors, the editor service and the feature registry
\* raise while a request oracle lives
MaxEvents == 3
\* most document symbol providers registered for one text model
MaxProviders == 1
\* most calls of OutlinePanel._doUpdate while a panel lives
MaxUpdates == 2
\* most SaveParticipant instances constructed
MaxInstances == 4
\* highest version id the text model of the outline reaches
MaxVersions == 3
\* most findInPage requests between two stopFind() of a webview
MaxFinds == 2
\* most store() and remove() the listeners of onWillSaveState do
MaxListenerOps == 2
\* most lines of a document when its first save begins
MaxLines == 3
\* most messages a webview element is asked to send
MaxSends == 3

\* how many times initialize() of the storage service is called
MaxInitCalls == 3

VARIABLES
    \* ---- save participant chain ----
    reason,        \* env.reason of the running save: "none" before participate()
    index,         \* sequence(): number of promise factories invoked so far
    invoked,       \* the participants whose participate() ran, in invocation order
    promise,       \* promise[p]: state of the promise p.participate() returned
    result,        \* state of the promise SaveParticipant.participate() returned
    warnCount,     \* number of calls of logService.warn
    enabled,       \* enabled[p]: what p read from its configuration gate
    edited,        \* participants that pushed at least one edit to the model
    modelVersion,  \* model.getVersionId()
    userEdits,     \* edits typed by the user so far
    fmt,           \* FormatOnSaveParticipant: timer, request, token, versionNow
                   \* and, as history, the edits the request resolved with
    ca,            \* CodeActionOnSaveParticipant: timer, token, loop position
    eh,            \* ExtHostSaveParticipant: timer, request
    \* ---- DataTree ----
    identityProvider, \* whether options.identityProvider was given
    input,         \* DataTree.input: an input, or "undefined"
    dataSource,    \* what dataSource.getChildren answers, per element
    changes,       \* number of changes of the data source so far
    model,         \* the nodes of the ObjectTreeModel, by location
    focus,         \* the focused elements
    selection,     \* the selected elements
    thrown,        \* the error the last DataTree call threw, or "none"
    called,        \* history: the last call made on the tree:
                   \* "setInput" without view state, "setInput+viewState",
                   \* "updateChildren", "getViewState", or some "other"
    unchanged,     \* history: the last updateChildren found the children it
                   \* refreshed as the model already held them
    refreshed,     \* history: the location of the node the last
                   \* updateChildren was called for, <<>> for the input and
                   \* after any other call
    given,         \* history: the view state the last call, a setInput, was
                   \* given; NoViewState after any other call
    returned,      \* what the last call, a getViewState, returned;
                   \* NoResult after any other call
    \* ---- RequestOracle and its environment ----
    widget,        \* editorService.activeTextEditorWidget as a code editor,
                   \* or "none"
    editorModel,   \* editorModel[e]: the text model of editor e, or "none"
    versionIds,     \* versionIds[m]: model.getVersionId()
    providers,     \* providers[m]: featureRegistry.all(m).length
    disposedEditors, \* the editors that were disposed
    lastState,     \* RequestOracle._lastState, NoState for undefined
    session,       \* RequestOracle._sessionDisposable: the editor its
                   \* listeners are attached to, and whether they still are
    handle,        \* the debounce timer of the session's content listener
    oracleDisposed, \* whether RequestOracle.dispose() ran
    events,        \* number of events raised so far; the k-th event that is
                   \* a content change is the content-change event k
    calls,         \* history: number of calls of RequestOracle._callback
    lastCall,      \* history: the arguments of the last call of _callback
    delivered,     \* history: delivered[k]: number of calls of _callback
                   \* that carried the content-change event k
    cancelled,     \* history: the content-change events whose timer was
                   \* cleared by disposing the session
    sinceEvent,    \* history: milliseconds since the content listener last
                   \* ran, capped at SinceEventCap
    lastEvent,     \* history: the event the content listener last ran for,
                   \* 0 if it never ran
    \* ---- OutlinePanel ----
    treeInput,     \* this._tree.getInput(): an outline model, or NoModel
    viewToken,     \* what this._tree.getViewState() returns: the expansion,
                   \* focus and selection of the tree taken as a whole
    treeStates,    \* this._treeStates: the entries of the LRU cache, the
                   \* least recently used first
    message,       \* the message the panel shows, or "none"
    outlineModels, \* outlineModels[i]: the outline model object the i-th
                   \* update created: its document and TreeElement.size
    updates,       \* updates[i]: the i-th call of _doUpdate: where it is,
                   \* what it captured, and the history of what it did
    started,       \* number of calls of _doUpdate so far
    listeners,     \* the updates whose listeners this._editorDisposables holds
    panelDisposed, \* whether OutlinePanel.dispose() ran
    lastStep,      \* history: what the last step was for _doUpdate: the
                   \* key it stored the view state under, the numbers
                   \* of its ratio check and whether it went to wait, how
                   \* it applied the new model and the view state it
                   \* restored; NoStep after any other step
    used,          \* history: the keys this._treeStates was asked to set
                   \* or found on get, the most recently used last
    \* ---- the save participant slot of TextFileEditorModel ----
    saveParticipant, \* the static TextFileEditorModel.saveParticipant: the
                     \* instance registered, 0 for null
    instances,       \* instances[i]: "none" before SaveParticipant i is
                     \* constructed, then "live", then "disposed"
    \* ---- cursor and selection sync of the outline panel ----
    followCursor,  \* this._outlineViewState.followCursor
    outlineShown,  \* whether this._tree.getInput() is defined
    textVersion,   \* newModel.textModel.getVersionId()
    textDisposed,  \* newModel.textModel.isDisposed()
    subscribed,    \* whether the selection and cursor listeners of the
                   \* update (lines 504-539) are in this._editorDisposables
    versionIdThen, \* versionIdThen of the cursor listener (line 531)
    cursor,        \* the editor's selection: where the cursor is
    treeFocused,   \* this._tree.getFocus(): the first element, or "none"
    treeSelected,  \* this._tree.getSelection(): the first element, or "none"
    lastSync,      \* history: what the last step did as a listener: the
                   \* browser event and first element of the selection
                   \* change the tree fired, whether openEditor was called
                   \* and whether setFocus and setSelection were
    \* ---- find in a webview ----
    findStarted,   \* this._findStarted
    sinceStop,     \* history: the findInPage requests the webview got
                   \* since it was constructed or stopFindInPage was called
    lastFind,      \* history: the call of the last step, its arguments,
                   \* the request the webview got from it, if any, and
                   \* what _findStarted and sinceStop were before
    \* ---- StorageMainService ----
    storagePath,   \* this.storagePath: "memory" for IN_MEMORY_PATH, "file"
    fileExists,    \* whether the storage file existed before initialize()
    initializePromise, \* where initialize() is: "none" before the call,
                   \* "exists", "init" and "migrating" while it awaits
                   \* exists(), storage.init() and the migration, then
                   \* "resolved" or "rejected"
    globalStorageExists, \* what globalStorageExists resolved with
    storage,       \* this.storage: its kind, its state, its cache, the
                   \* keys with changes not yet flushed, and the items
                   \* of its database
    migration,     \* history: whether migrateGlobalStorage() was called,
                   \* how it ended, and whether init() was over by then
    logged,        \* the messages given to logService
    closeCalled,   \* whether close() was called
    lastClose,     \* history: what the listeners of onWillSaveState did
    initializeCalls,   \* history: how many times initialize() was called
    doInitializeRuns,  \* history: how many times doInitialize() ran; the
                       \* number of the promise in this.initializePromise
    promisesReturned,  \* history: the promises initialize() returned
    storageSetups,     \* history: how many times the SQLite storage was
                       \* created, init()-ed and subscribed
                   \* in the step of close(), <<>> after any other step
    \* ---- FinalNewLine and TrimFinalNewLines on the text ----
    lines,         \* the text model: its lines, each a sequence of characters
    selections,    \* the cursor lines of the editor findEditor returns, {}
                   \* when the model is attached to no editor
    textReason,    \* env.reason of the save under way
    textPc,        \* the participant that runs next in the save: "final",
                   \* "trim", or "done"; "idle" when no text is saved
    linesAtSave,   \* history: the lines when the save began
    lastPush,      \* history: the participant that ran in the last step, its
                   \* setting, the lines and cursors it found and whether it
                   \* pushed an edit
    pushes,        \* history: the settings the participants of this save
                   \* ran with, whether one of them pushed an edit, and
                   \* whether the save before was an explicit one with
                   \* both settings on
    \* ---- WebviewElement: messages to the webview, SVG requests ----
    ready,         \* this._ready: "pending" or "resolved"
    webDisposed,   \* dispose() was called: this._webview is undefined
    requested,     \* how many times _send was called
    sendQueue,     \* the calls of _send whose callback on this._ready has
                   \* not run, in the order of the calls
    sent,          \* what this._webview.send was called with, in order
    caught,        \* the calls of _send whose callback threw, the error
                   \* going to console.error
    webContents,   \* this._contents
    contentOptions, \* this._contentOptions
    allowSvgs,     \* this._options.allowSvgs
    blockerOptions, \* the _options of the SvgBlocker
    hooked,        \* the SvgBlocker listens to the requests of the session
    lastRequest    \* history: the request of the last step and whether it
                   \* was cancelled

saveVars == <<reason, index, invoked, promise, result, warnCount, enabled, edited,
              modelVersion, userEdits, fmt, ca, eh>>

treeVars == <<identityProvider, input, dataSource, changes, model,
              focus, selection, thrown, called,
              unchanged, refreshed, given, returned>>

oracleVars == <<widget, editorModel, versionIds, providers, disposedEditors,
                lastState, session, handle, oracleDisposed, events,
                calls, lastCall, delivered, cancelled, sinceEvent, lastEvent>>

panelVars == <<treeInput, viewToken, treeStates, message, outlineModels,
               updates, started, listeners, panelDisposed, lastStep, used>>

outlineVars == <<oracleVars, panelVars>>

\* the variables of the components modelled on their own
slotVars == <<saveParticipant, instances>>

syncVars == <<followCursor, outlineShown, textVersion, textDisposed,
              subscribed, versionIdThen, cursor, treeFocused, treeSelected,
              lastSync>>

findVars == <<findStarted, sinceStop, lastFind>>

storageVars == <<storagePath, fileExists, initializePromise,
                 globalStorageExists, storage, migration, logged,
                 closeCalled, lastClose, initializeCalls,
                 doInitializeRuns, promisesReturned, storageSetups>>

textVars == <<lines, selections, textReason, textPc, linesAtSave,
              lastPush, pushes>>

webVars == <<ready, webDisposed, requested, sendQueue, sent, caught,
             webContents, contentOptions, allowSvgs, blockerOptions, hooked,
             lastRequest>>

serviceVars == <<slotVars, syncVars, findVars, storageVars, textVars,
                 webVars>>

vars == <<saveVars, treeVars, outlineVars, serviceVars>>

(***************************************************************************)
(* Save participant chain                                                  *)
(***************************************************************************)

\* SaveReason (textfiles.ts); only AUTO is distinguished by the participants
SaveReasons == {"EXPLICIT", "AUTO"}

\* mutant: the format step registered before the code-action step
SaveParticipants_swapped ==
    << "TrimWhitespace", "FormatOnSave", "CodeActionOnSave",
       "FinalNewLine", "TrimFinalNewLines", "ExtHost" >>

\* the list built in SaveParticipant's constructor, in declaration order
SaveParticipants ==
    << "TrimWhitespace", "CodeActionOnSave", "FormatOnSave",
       "FinalNewLine", "TrimFinalNewLines", "ExtHost" >>

ParticipantNames == { SaveParticipants[i] : i \in 1..Len(SaveParticipants) }

\* CodeActionKind values that may be keys of editor.codeActionsOnSave
SourceFixAll == "source.fixAll"
SourceOrganizeImports == "source.organizeImports"
CodeActionKinds == {SourceFixAll, SourceOrganizeImports}

\* editor.codeActionsOnSave: absent (defined = FALSE), or an object given as
\* the sequence of its keys (insertion order) with their values
CodeActionSettings ==
    { [defined |-> FALSE, keys |-> <<>>] } \cup
    { [defined |-> TRUE, keys |-> s] :
        s \in { t \in UNION { [1..n -> CodeActionKinds \X BOOLEAN] : n \in 0..2 } :
                   \A i, j \in DOMAIN t : i # j => t[i][1] # t[j][1] } }

\* Object.keys(setting).filter(x => setting[x]).map(x => new CodeActionKind(x))
EnabledKinds(setting) ==
    LET on == SelectSeq(setting.keys, LAMBDA kv : kv[2])
    IN  [i \in DOMAIN on |-> on[i][1]]

\* .sort(...): source.fixAll first, the other kinds keep their order
SortKinds(kinds) ==
    SelectSeq(kinds, LAMBDA k : k = SourceFixAll) \o
    SelectSeq(kinds, LAMBDA k : k # SourceFixAll)

FmtInit == [timer |-> "none", request |-> "none", cancelled |-> FALSE,
            versionNow |-> 0, timedOut |-> FALSE, lateEdits |-> FALSE,
            edits |-> "none"]

CaInit == [timer |-> "none", cancelled |-> FALSE, kinds |-> <<>>, pc |-> "none",
           kind |-> 0, todo |-> 0, timedOut |-> FALSE,
           lateApply |-> FALSE, lateEdit |-> FALSE]

EhInit == [timer |-> "none", request |-> "none"]

SaveInit ==
    /\ reason = "none"
    /\ index = 0
    /\ invoked = <<>>
    /\ promise = [p \in ParticipantNames |-> "none"]
    /\ result = "none"
    /\ warnCount = 0
    /\ enabled = [p \in ParticipantNames |-> "unread"]
    /\ edited = {}
    /\ modelVersion = 1
    /\ userEdits = 0
    /\ fmt = FmtInit
    /\ ca = CaInit
    /\ eh = EhInit

\* sequence(promiseFactories): the next factory is called once the promise of
\* the previous one has resolved
sequence_next(p) ==
    /\ result = "pending"
    /\ index < Len(SaveParticipants)
    /\ SaveParticipants[index + 1] = p
    /\ index > 0 => promise[SaveParticipants[index]] = "resolved"

\* state of the promise sequence(promiseFactories) returns: a promise chain
\* n.then(thenHandler), so a rejected step rejects the whole chain there
sequence_state ==
    IF index > 0 /\ promise[SaveParticipants[index]] = "rejected" THEN "rejected"
    ELSE IF index = Len(SaveParticipants)
            /\ promise[SaveParticipants[index]] = "resolved" THEN "resolved"
    ELSE "pending"

\* bookkeeping common to every participant's participate(): sequence() has
\* called factory index + 1
Called(p) ==
    /\ index' = index + 1
    /\ invoked' = Append(invoked, p)

\* SaveParticipant.participate(model, env)
SaveParticipant_participate ==
    /\ result = "none"
    /\ \E r \in SaveReasons : reason' = r
    /\ result' = "pending"
    /\ UNCHANGED <<treeVars, outlineVars, serviceVars, index, invoked, promise, warnCount, enabled, edited,
                   modelVersion, userEdits, fmt, ca, eh>>

\* what .then(() => { }, err => this._logService.warn(err)) adds to the warning
\* count for a settled sequence promise
SaveParticipant_warns(state) == IF state = "rejected" THEN 1 ELSE 0

\* mutant: the rejection handler passes the rejection on
SaveParticipant_settled_rethrow(state) == state

\* the promise .then(() => { }, err => this._logService.warn(err)) returns
SaveParticipant_settled(state) == "resolved"

\* sequence(promiseFactory).then(() => { }, err => this._logService.warn(err))
SaveParticipant_then ==
    /\ result = "pending"
    /\ sequence_state # "pending"
    /\ warnCount' = warnCount + SaveParticipant_warns(sequence_state)
    /\ result' = SaveParticipant_settled(sequence_state)
    /\ UNCHANGED <<treeVars, outlineVars, serviceVars, reason, index, invoked, promise, enabled, edited,
                   modelVersion, userEdits, fmt, ca, eh>>

\* a participant pushes an edit to the text model
PushEdit(p) ==
    /\ edited' = edited \cup {p}
    /\ modelVersion' = modelVersion + 1

\* the three synchronous participants: read the gate, edit when there is
\* something to do, resolve
SyncParticipant(p) ==
    /\ sequence_next(p)
    /\ Called(p)
    /\ \E cfg \in BOOLEAN, hasOps \in BOOLEAN :
         /\ enabled' = [enabled EXCEPT ![p] = IF cfg THEN "on" ELSE "off"]
         /\ IF cfg /\ hasOps THEN PushEdit(p)
                             ELSE UNCHANGED <<edited, modelVersion>>
    /\ promise' = [promise EXCEPT ![p] = "resolved"]
    /\ UNCHANGED <<treeVars, outlineVars, serviceVars, reason, result, warnCount, userEdits, fmt, ca, eh>>

TrimWhitespaceParticipant_participate == SyncParticipant("TrimWhitespace")

FinalNewLineParticipant_participate == SyncParticipant("FinalNewLine")

TrimFinalNewLinesParticipant_participate == SyncParticipant("TrimFinalNewLines")

(***************************************************************************)
(* CodeActionOnSaveParticipant                                             *)
(***************************************************************************)

\* the early returns of CodeActionOnSaveParticipant.participate: an AUTO save,
\* an absent setting, or no kind with a truthy value
CodeActionGate(r, setting) ==
    /\ r # "AUTO"
    /\ setting.defined
    /\ Len(EnabledKinds(setting)) > 0

\* codeActionsOnSave, as participate() computes it from the setting
codeActionsOnSave(setting) ==
    SortKinds(EnabledKinds(setting))

CodeActionOnSaveParticipant_participate ==
    /\ sequence_next("CodeActionOnSave")
    /\ Called("CodeActionOnSave")
    /\ \E setting \in CodeActionSettings :
         /\ enabled' = [enabled EXCEPT !["CodeActionOnSave"] =
                          IF setting.defined /\ Len(EnabledKinds(setting)) > 0
                          THEN "on" ELSE "off"]
         /\ IF CodeActionGate(reason, setting)
            THEN /\ promise' = [promise EXCEPT !["CodeActionOnSave"] = "pending"]
                 \* setTimeout(...) of the race, and applyOnSaveActions runs up to
                 \* its first await: getActionsToRun for the first kind
                 /\ ca' = [ca EXCEPT !.timer = "armed",
                                     !.kinds = codeActionsOnSave(setting),
                                     !.pc = "getActions",
                                     !.kind = 1]
            ELSE /\ promise' = [promise EXCEPT !["CodeActionOnSave"] = "resolved"]
                 /\ ca' = ca
    /\ UNCHANGED <<treeVars, outlineVars, serviceVars, reason, result, warnCount, edited, modelVersion, userEdits, fmt, eh>>

\* the handlers .then(() => tokenSource.cancel(), e => { tokenSource.cancel();
\* return Promise.reject(e) }) of the race, run when the race settles first
\* with `how`
RaceSettles(how) ==
    IF promise["CodeActionOnSave"] = "pending"
    THEN promise' = [promise EXCEPT !["CodeActionOnSave"] = how]
    ELSE promise' = promise

\* the timer callback of the race
CodeActionOnSave_onTimeout(c, pending) ==
    [c EXCEPT !.timer = "fired", !.cancelled = TRUE,
              !.timedOut = c.timedOut \/ pending]

CodeActionOnSave_timeout ==
    /\ ca.timer = "armed"
    /\ ca' = CodeActionOnSave_onTimeout(ca, promise["CodeActionOnSave"] = "pending")
    /\ RaceSettles("rejected")
    /\ UNCHANGED <<treeVars, outlineVars, serviceVars, reason, index, invoked, result, warnCount, enabled, edited,
                   modelVersion, userEdits, fmt, eh>>

\* applyOnSaveActions after the actions of kind number c.kind are done: the
\* for loop moves to the next kind, or the function returns
NextKind(c) ==
    IF c.kind < Len(c.kinds)
    THEN [c EXCEPT !.pc = "getActions", !.kind = c.kind + 1, !.todo = 0]
    ELSE [c EXCEPT !.pc = "resolved", !.todo = 0,
                   !.cancelled = c.cancelled \/ promise["CodeActionOnSave"] = "pending"]

\* the race settles when applyOnSaveActions returns or throws
LoopSettles(c) ==
    IF c.pc = "resolved" THEN RaceSettles("resolved")
    ELSE IF c.pc = "rejected" THEN RaceSettles("rejected")
    ELSE promise' = promise

\* applyCodeActions calls applyCodeAction for the next action of the list
StartApply(c, remaining) ==
    [c EXCEPT !.pc = "apply", !.todo = remaining,
              !.lateApply = c.lateApply \/ c.timedOut]

\* how many code actions getCodeActions can return: a provider that honours
\* the cancellation token returns none once the token is cancelled
ActionCounts == IF ca.cancelled THEN {0} ELSE 0..MaxActions

\* await this.getActionsToRun(...) resolves with n actions
applyOnSaveActions_gotActions ==
    /\ ca.pc = "getActions"
    /\ \E n \in ActionCounts :
         LET c == IF n = 0 THEN NextKind(ca) ELSE StartApply(ca, n - 1)
         IN  /\ ca' = c
             /\ LoopSettles(c)
    /\ UNCHANGED <<treeVars, outlineVars, serviceVars, reason, index, invoked, result, warnCount, enabled, edited,
                   modelVersion, userEdits, fmt, eh>>

\* await this.getActionsToRun(...) rejects: applyOnSaveActions throws
applyOnSaveActions_getFailed ==
    /\ ca.pc = "getActions"
    /\ LET c == [ca EXCEPT !.pc = "rejected",
                           !.cancelled = ca.cancelled
                                         \/ promise["CodeActionOnSave"] = "pending"]
       IN  /\ ca' = c
           /\ LoopSettles(c)
    /\ UNCHANGED <<treeVars, outlineVars, serviceVars, reason, index, invoked, result, warnCount, enabled, edited,
                   modelVersion, userEdits, fmt, eh>>

\* applyCodeActions after one applyCodeAction resolved: the next action of the
\* list, or back to applyOnSaveActions' loop
applyCodeActions_next(c) ==
    IF c.todo > 0 THEN StartApply(c, c.todo - 1) ELSE NextKind(c)

\* await applyCodeAction(...) resolves, having applied an edit or not
applyCodeActions_applied ==
    /\ ca.pc = "apply"
    /\ \E edit \in BOOLEAN :
         LET c == applyCodeActions_next([ca EXCEPT !.lateEdit =
                                            ca.lateEdit \/ (edit /\ ca.timedOut)])
         IN  /\ ca' = c
             /\ LoopSettles(c)
             /\ IF edit THEN PushEdit("CodeActionOnSave")
                        ELSE UNCHANGED <<edited, modelVersion>>
    /\ UNCHANGED <<treeVars, outlineVars, serviceVars, reason, index, invoked, result, warnCount, enabled,
                   userEdits, fmt, eh>>

\* await applyCodeAction(...) rejects: applyCodeActions throws, and the catch
\* of applyOnSaveActions swallows it
applyCodeActions_failed ==
    /\ ca.pc = "apply"
    /\ LET c == NextKind(ca)
       IN  /\ ca' = c
           /\ LoopSettles(c)
    /\ UNCHANGED <<treeVars, outlineVars, serviceVars, reason, index, invoked, result, warnCount, enabled, edited,
                   modelVersion, userEdits, fmt, eh>>

(***************************************************************************)
(* FormatOnSaveParticipant                                                 *)
(***************************************************************************)

\* mutant: the gate forgets the save reason
FormatGate_anyReason(r, cfg) == cfg

\* the early return of FormatOnSaveParticipant.participate
FormatGate(r, cfg) == ~ (r = "AUTO" \/ ~ cfg)

FormatOnSaveParticipant_participate ==
    /\ sequence_next("FormatOnSave")
    /\ Called("FormatOnSave")
    /\ \E cfg \in BOOLEAN :
         /\ enabled' = [enabled EXCEPT !["FormatOnSave"] = IF cfg THEN "on" ELSE "off"]
         /\ IF FormatGate(reason, cfg)
            THEN /\ promise' = [promise EXCEPT !["FormatOnSave"] = "pending"]
                 /\ fmt' = [fmt EXCEPT !.timer = "armed", !.request = "pending",
                                       !.versionNow = modelVersion]
            ELSE /\ promise' = [promise EXCEPT !["FormatOnSave"] = "resolved"]
                 /\ fmt' = fmt
    /\ UNCHANGED <<treeVars, outlineVars, serviceVars, reason, result, warnCount, edited, modelVersion, userEdits, ca, eh>>

\* the promise of the step after the timer callback ran: reject(...) of the
\* executor's promise
FormatOnSave_reject(state) == IF state = "pending" THEN "rejected" ELSE state

\* setTimeout(() => { reject(...); source.cancel(); }, timeout)
FormatOnSave_timeout ==
    /\ fmt.timer = "armed"
    /\ fmt' = [fmt EXCEPT !.timer = "fired", !.cancelled = TRUE,
                          !.timedOut = fmt.timedOut
                                       \/ (fmt.request = "pending"
                                           /\ promise["FormatOnSave"] = "pending")]
    /\ promise' = [promise EXCEPT !["FormatOnSave"] =
                      FormatOnSave_reject(promise["FormatOnSave"])]
    /\ UNCHANGED <<treeVars, outlineVars, serviceVars, reason, index, invoked, result, warnCount, enabled, edited,
                   modelVersion, userEdits, ca, eh>>

\* a callback that applies the edits to whatever version the model has
FormatOnSave_applies_any_version(nonEmpty, versionNow, versionId) ==
    nonEmpty

\* the condition of the .then(edits => ...) callback
FormatOnSave_applies(nonEmpty, versionNow, versionId) ==
    nonEmpty /\ versionNow = versionId

\* mutant: the callback runs although the promise was rejected
FormatOnSave_reaches_always(state) == TRUE

\* resolve(edits) of the executor's promise: the edits reach the
\* .then(edits => ...) callback only if the promise has not been rejected
FormatOnSave_reaches(state) == state = "pending"

\* request.then(resolve, reject) with the request resolved
FormatOnSave_response ==
    /\ fmt.request = "pending"
    /\ \E nonEmpty \in BOOLEAN :
         /\ fmt' = [fmt EXCEPT !.request = "done",
                               !.lateEdits = nonEmpty /\ fmt.timedOut,
                               !.edits = IF nonEmpty THEN "nonEmpty"
                                         ELSE "empty"]
         /\ IF FormatOnSave_reaches(promise["FormatOnSave"])
            THEN /\ promise' = [promise EXCEPT !["FormatOnSave"] = "resolved"]
                 /\ IF FormatOnSave_applies(nonEmpty, fmt.versionNow, modelVersion)
                    THEN PushEdit("FormatOnSave")
                    ELSE UNCHANGED <<edited, modelVersion>>
            ELSE UNCHANGED <<promise, edited, modelVersion>>
    /\ UNCHANGED <<treeVars, outlineVars, serviceVars, reason, index, invoked, result, warnCount, enabled,
                   userEdits, ca, eh>>

\* request.then(resolve, reject) with the request rejected
FormatOnSave_requestFailed ==
    /\ fmt.request = "pending"
    /\ fmt' = [fmt EXCEPT !.request = "done"]
    /\ promise' = [promise EXCEPT !["FormatOnSave"] =
                      FormatOnSave_reject(promise["FormatOnSave"])]
    /\ UNCHANGED <<treeVars, outlineVars, serviceVars, reason, index, invoked, result, warnCount, enabled, edited,
                   modelVersion, userEdits, ca, eh>>

(***************************************************************************)
(* ExtHostSaveParticipant                                                  *)
(***************************************************************************)

ExtHostSaveParticipant_participate ==
    /\ sequence_next("ExtHost")
    /\ Called("ExtHost")
    /\ \E shouldSynchronizeModel \in BOOLEAN :
         /\ enabled' = [enabled EXCEPT !["ExtHost"] =
                          IF shouldSynchronizeModel THEN "on" ELSE "off"]
         /\ IF shouldSynchronizeModel
            THEN /\ promise' = [promise EXCEPT !["ExtHost"] = "pending"]
                 /\ eh' = [eh EXCEPT !.timer = "armed", !.request = "pending"]
            ELSE /\ promise' = [promise EXCEPT !["ExtHost"] = "resolved"]
                 /\ eh' = eh
    /\ UNCHANGED <<treeVars, outlineVars, serviceVars, reason, result, warnCount, edited, modelVersion, userEdits, fmt, ca>>

\* mutant: the timer callback does not reject
ExtHost_onTimeout_silent(state) == state

\* the promise of the step after setTimeout(() => reject(...), 1750) fired
ExtHost_onTimeout(state) == IF state = "pending" THEN "rejected" ELSE state

ExtHost_timeout ==
    /\ eh.timer = "armed"
    /\ eh' = [eh EXCEPT !.timer = "fired"]
    /\ promise' = [promise EXCEPT !["ExtHost"] = ExtHost_onTimeout(promise["ExtHost"])]
    /\ UNCHANGED <<treeVars, outlineVars, serviceVars, reason, index, invoked, result, warnCount, enabled, edited,
                   modelVersion, userEdits, fmt, ca>>

\* $participateInSave(...) answers: every listener succeeded, one failed
\* ('listener failed'), or the call itself rejects
ExtHost_response ==
    /\ eh.request = "pending"
    /\ eh' = [eh EXCEPT !.request = "done"]
    /\ \E values \in {"allTrue", "someFalse", "rejected"} :
         promise' = [promise EXCEPT !["ExtHost"] =
                       IF promise["ExtHost"] # "pending" THEN promise["ExtHost"]
                       ELSE IF values = "allTrue" THEN "resolved" ELSE "rejected"]
    /\ UNCHANGED <<treeVars, outlineVars, serviceVars, reason, index, invoked, result, warnCount, enabled, edited,
                   modelVersion, userEdits, fmt, ca>>

\* the user types into the model while the save runs
UserEdit ==
    /\ userEdits < MaxUserEdits
    /\ userEdits' = userEdits + 1
    /\ modelVersion' = modelVersion + 1
    /\ UNCHANGED <<treeVars, outlineVars, serviceVars, reason, index, invoked, promise, result, warnCount, enabled,
                   edited, fmt, ca, eh>>

SaveNext ==
    \/ SaveParticipant_participate
    \/ SaveParticipant_then
    \/ TrimWhitespaceParticipant_participate
    \/ FinalNewLineParticipant_participate
    \/ TrimFinalNewLinesParticipant_participate
    \/ CodeActionOnSaveParticipant_participate
    \/ CodeActionOnSave_timeout
    \/ applyOnSaveActions_gotActions
    \/ applyOnSaveActions_getFailed
    \/ applyCodeActions_applied
    \/ applyCodeActions_failed
    \/ FormatOnSaveParticipant_participate
    \/ FormatOnSave_timeout
    \/ FormatOnSave_response
    \/ FormatOnSave_requestFailed
    \/ ExtHostSaveParticipant_participate
    \/ ExtHost_timeout
    \/ ExtHost_response
    \/ UserEdit


(***************************************************************************)
(* DataTree                                                                *)
(***************************************************************************)

\* the elements the data source can report, and the input given to setInput
Elements == {"a", "b", "c"}
Inputs == {"in1"}

Range(seq) == { seq[i] : i \in DOMAIN seq }

Last(seq) == seq[Len(seq)]

\* lists of distinct elements: children lists, and locations (the elements on
\* the way from the top level down to a node; <<>> is the root)
ChildLists ==
    { q \in UNION { [1..n -> Elements] : n \in 0..Cardinality(Elements) } :
        \A i, j \in DOMAIN q : i # j => q[i] # q[j] }

\* the elements a hierarchy reports below its root
Reported(h) ==
    LET r1 == Range(h["root"])
        r2 == r1 \cup UNION { Range(h[e]) : e \in r1 }
    IN  r2 \cup UNION { Range(h[e]) : e \in r2 }

\* element hierarchies: every element has at most one parent, and an element
\* that is not reported has no children
Hierarchies ==
    { h \in [Elements \cup {"root"} -> ChildLists] :
        /\ \A e \in Elements :
             Cardinality({ x \in DOMAIN h : e \in Range(h[x]) }) <= 1
        /\ \A e \in Elements \ Reported(h) : h[e] = <<>> }

\* the elements of hierarchy h below e in document order, from child i on
RECURSIVE Preorder(_, _, _)
Preorder(h, e, i) ==
    IF i > Len(h[e]) THEN <<>>
    ELSE <<h[e][i]>> \o Preorder(h, h[e][i], 1) \o Preorder(h, e, i + 1)

\* the hierarchies the data source starts with: every shape over the three
\* elements, named in document order; DataSource_move and DataSource_remove
\* lead to the others
InitialHierarchies ==
    { h \in Hierarchies : Preorder(h, "root", 1) = <<"a", "b", "c">> }

\* dataSource.getChildren(element); the data source reports its one hierarchy
\* for whichever input it is asked about
getChildren(element) ==
    IF element \in Inputs THEN dataSource["root"] ELSE dataSource[element]

\* identityProvider.getId(element).toString()
getId(element) == <<"id", element>>

Ids == { getId(e) : e \in Elements }

\* IDataTreeViewState; focus, selection and expanded as sets of ids. The
\* view states handed to setInput have element a focused and b selected, and
\* any of a and b expanded
ViewStates ==
    [focus : {{getId("a")}}, selection : {{getId("b")}},
     expanded : SUBSET {getId("a"), getId("b")}]

\* the isCollapsed argument of _refresh: absent, or the closure of setInput
NoPredicate == [defined |-> FALSE, expanded |-> {}]

setInput_isCollapsed(viewState) == [defined |-> TRUE, expanded |-> viewState.expanded]

\* mutant: a refresh without predicate marks every parent as expanded
iterate_collapsed_false(size, isCollapsed, element) ==
    IF size = 0 THEN "undefined"
    ELSE IF ~ isCollapsed.defined THEN "false"
    ELSE IF getId(element) \notin isCollapsed.expanded THEN "true" ELSE "false"

\* mutant: the predicate is asked for childless elements too
iterate_collapsed_childless(size, isCollapsed, element) ==
    IF ~ isCollapsed.defined THEN "undefined"
    ELSE IF getId(element) \notin isCollapsed.expanded THEN "true" ELSE "false"

\* size === 0 ? undefined : (isCollapsed && isCollapsed(element))
iterate_collapsed(size, isCollapsed, element) ==
    IF size = 0 THEN "undefined"
    ELSE IF ~ isCollapsed.defined THEN "undefined"
    ELSE IF getId(element) \notin isCollapsed.expanded THEN "true" ELSE "false"

RECURSIVE iterate(_, _)
\* DataTree.iterate: the tree elements below `element`, depth first
iterate(element, isCollapsed) ==
    LET children == getChildren(element)
    IN  [i \in DOMAIN children |->
            LET sub == iterate(children[i], isCollapsed)
            IN  [element |-> children[i],
                 children |-> sub,
                 collapsed |-> iterate_collapsed(Len(sub), isCollapsed, children[i])]]

RECURSIVE Flat(_, _)
\* the tree elements of a sequence with their locations below `location`
Flat(treeElements, location) ==
    UNION { { <<Append(location, d.element), d>> }
              \cup Flat(d.children, Append(location, d.element)) :
            d \in Range(treeElements) }

\* the locations strictly below `location` in the model
Below(location) ==
    { q \in DOMAIN model :
        Len(q) > Len(location) /\ SubSeq(q, 1, Len(location)) = location }

\* the node the model holds at location q for tree element d: the node that
\* is there already is reused with its collapse state unless the tree element
\* states one; a new node is expanded unless the tree element states otherwise
createTreeNode(q, d) ==
    LET known == q \in DOMAIN model
        prior == model[q]
        collapsed == IF d.collapsed # "undefined" THEN d.collapsed
                     ELSE IF known THEN (IF prior.collapsed THEN "true" ELSE "false")
                     ELSE "undefined"
    IN  [children |-> [i \in DOMAIN d.children |-> d.children[i].element],
         collapsible |-> (IF known THEN prior.collapsible
                                   ELSE collapsed # "undefined")
                         \/ Len(d.children) > 0,
         collapsed |-> collapsed = "true"]

\* ObjectTreeModel.setChildren: the model after the children of the node at
\* `location` are replaced by `treeElements`; nodes the new children do not
\* include are removed with their subtrees
setChildren(location, treeElements) ==
    LET created == Flat(treeElements, location)
        createdAt == { c[1] : c \in created }
        kept == DOMAIN model \ Below(location)
    IN  [q \in kept \cup createdAt |->
            IF q \in createdAt
            THEN createTreeNode(q, (CHOOSE c \in created : c[1] = q)[2])
            ELSE IF q = location
            THEN [model[q] EXCEPT
                    !.children = [i \in DOMAIN treeElements |-> treeElements[i].element],
                    !.collapsible = @ \/ Len(treeElements) > 0]
            ELSE model[q]]

\* the locations of the nodes a model holds for an element
Locations(m, element) == { q \in DOMAIN m : q # <<>> /\ Last(q) = element }

\* the elements that have a node in a model
ElementsOf(m) == { Last(q) : q \in DOMAIN m \ {<<>>} }

\* the focus or selection after the model changed: elements without a node
\* are dropped
TraitAfter(trait, m) == trait \cap ElementsOf(m)

\* mutant: every refresh replaces the children of the root
refresh_location_root(in, element, location) == <<>>

\* element === this.input ? null : element, as the location of the node
refresh_location(in, element, location) ==
    IF element = in THEN <<>> ELSE location

\* this.model.setChildren(element === this.input ? null : element,
\*                        this.iterate(element, isCollapsed).elements, ...)
\* with this.input already `in` and the element's node at `location`
_refresh(in, element, location, isCollapsed) ==
    model' = setChildren(refresh_location(in, element, location),
                         iterate(element, isCollapsed))

\* no view state, and the result of a call that returns none
NoViewState == [focus |-> {}, selection |-> {}, expanded |-> {}]

NoResult == [focus |-> {}, selection |-> {}, expanded |-> <<>>]

RootNode == [children |-> <<>>, collapsible |-> TRUE, collapsed |-> FALSE]

TreeInit ==
    /\ identityProvider \in BOOLEAN
    /\ input = "undefined"
    /\ dataSource \in InitialHierarchies
    /\ changes = 0
    /\ model = [q \in {<<>>} |-> RootNode]
    /\ focus = {}
    /\ selection = {}
    /\ thrown = "none"
    /\ called = "other"
    /\ unchanged = FALSE
    /\ refreshed = <<>>
    /\ given = NoViewState
    /\ returned = NoResult

\* a tree nobody uses: the state of the DataTree while the save chain runs
TreeIdle ==
    /\ identityProvider = TRUE
    /\ input = "undefined"
    /\ dataSource = [x \in Elements \cup {"root"} |-> <<>>]
    /\ changes = 0
    /\ model = [q \in {<<>>} |-> RootNode]
    /\ focus = {}
    /\ selection = {}
    /\ thrown = "none"
    /\ called = "other"
    /\ unchanged = FALSE
    /\ refreshed = <<>>
    /\ given = NoViewState
    /\ returned = NoResult

\* mutant: the view state is checked after the input is stored
setInput_throws_late(hasViewState) == FALSE

\* if (viewState && !this.identityProvider) { throw ... }
setInput_throws(hasViewState) == hasViewState /\ ~ identityProvider

\* setInput(input): this.input = input; this._refresh(input)
DataTree_setInput(in) ==
    /\ called' = "setInput"
    /\ unchanged' = FALSE
    /\ refreshed' = <<>>
    /\ given' = NoViewState
    /\ returned' = NoResult
    /\ UNCHANGED <<saveVars, outlineVars, serviceVars, identityProvider, dataSource, changes>>
    /\ input' = in
    /\ thrown' = "none"
    /\ _refresh(in, in, <<>>, NoPredicate)
    /\ focus' = TraitAfter(focus, model')
    /\ selection' = TraitAfter(selection, model')

\* setInput(input, viewState)
DataTree_setInputWithViewState(in, viewState) ==
    /\ called' = "setInput+viewState"
    /\ unchanged' = FALSE
    /\ refreshed' = <<>>
    /\ given' = viewState
    /\ returned' = NoResult
    /\ IF setInput_throws(TRUE)
       THEN /\ thrown' = "setInput"
            /\ UNCHANGED <<input, model, focus, selection>>
       ELSE /\ input' = in
            /\ _refresh(in, in, <<>>, setInput_isCollapsed(viewState))
            \* onDidCreateNode collects the created elements by id
            /\ focus' = { e \in ElementsOf(model') : getId(e) \in viewState.focus }
            /\ selection' = { e \in ElementsOf(model') : getId(e) \in viewState.selection }
            /\ thrown' = "none"
    /\ UNCHANGED <<saveVars, outlineVars, serviceVars, identityProvider, dataSource, changes>>

\* the locations the data source reports below `element`, for a node at
\* `location`
ReportedBelow(element, location) ==
    { location \o q : q \in { r \in ChildLists \ {<<>>} :
        /\ r[1] \in Range(getChildren(element))
        /\ \A i \in 1..(Len(r) - 1) : r[i + 1] \in Range(getChildren(r[i])) } }

\* the nodes at and below `location` in model m are, in order, what the data
\* source reports for `element`
Mirrors(m, element, location) ==
    /\ location \in DOMAIN m
    /\ m[location].children = getChildren(element)
    /\ LET reported == ReportedBelow(element, location)
       IN  /\ { q \in DOMAIN m : Len(q) > Len(location)
                                 /\ SubSeq(q, 1, Len(location)) = location }
                = reported
           /\ \A q \in reported : m[q].children = getChildren(Last(q))

\* the locations updateChildren(element) can refresh: the root for the input,
\* else the location of a node of the element
RefreshLocations(element) ==
    IF element = input THEN {<<>>} ELSE Locations(model, element)

\* updateChildren(element = this.input), once the input is set
DataTree_updateChildrenAt(element, location) ==
    /\ input # "undefined"
    /\ location \in RefreshLocations(element)
    /\ called' = "updateChildren"
    /\ thrown' = "none"
    /\ refreshed' = location
    /\ given' = NoViewState
    /\ returned' = NoResult
    /\ UNCHANGED <<saveVars, outlineVars, serviceVars, identityProvider, input, dataSource, changes>>
    /\ unchanged' = Mirrors(model, element, location)
    /\ _refresh(input, element, location, NoPredicate)
    /\ focus' = TraitAfter(focus, model')
    /\ selection' = TraitAfter(selection, model')

\* updateChildren(element = this.input)
DataTree_updateChildren(element) ==
    \/ /\ input = "undefined"
       /\ thrown' = "updateChildren"
       /\ called' = "updateChildren"
       /\ unchanged' = FALSE
       /\ refreshed' = <<>>
       /\ given' = NoViewState
       /\ returned' = NoResult
       /\ UNCHANGED <<saveVars, outlineVars, serviceVars, identityProvider, input, dataSource, changes,
                      model, focus, selection>>
    \/ \E location \in RefreshLocations(element) :
         DataTree_updateChildrenAt(element, location)

\* mutant: the walk does not descend below a collapsed node
getViewState_descends_expanded(node) == ~ node.collapsed

\* queue.push(...node.children): every node's children are visited
getViewState_descends(node) == TRUE

\* node !== root && node.collapsible && !node.collapsed
getViewState_lists(q, node) == q # <<>> /\ node.collapsible /\ ~ node.collapsed

\* the while loop of getViewState over a queue of node locations: the ids
\* pushed to `expanded`
RECURSIVE getViewState_walk(_)
getViewState_walk(queue) ==
    IF queue = <<>> THEN <<>>
    ELSE LET q == Head(queue)
             node == model[q]
             children == IF getViewState_descends(node)
                         THEN [i \in DOMAIN node.children |-> Append(q, node.children[i])]
                         ELSE <<>>
         IN  (IF getViewState_lists(q, node) THEN <<getId(Last(q))>> ELSE <<>>)
               \o getViewState_walk(Tail(queue) \o children)

\* what getViewState() returns
getViewState ==
    [focus |-> { getId(e) : e \in focus },
     selection |-> { getId(e) : e \in selection },
     expanded |-> getViewState_walk(<< <<>> >>)]

\* getViewState(): fails without identity provider, else reads the tree
DataTree_getViewState ==
    /\ called' = "getViewState"
    /\ unchanged' = FALSE
    /\ refreshed' = <<>>
    /\ given' = NoViewState
    /\ thrown' = IF ~ identityProvider THEN "getViewState" ELSE "none"
    /\ returned' = IF ~ identityProvider THEN NoResult ELSE getViewState
    /\ UNCHANGED <<saveVars, outlineVars, serviceVars, identityProvider, input, dataSource, changes, model,
                   focus, selection>>

\* collapse(element) and expand(element) of the tree widget: only a
\* collapsible node changes
Tree_setCollapsed(element, collapsed) ==
    /\ called' = "other"
    /\ unchanged' = FALSE
    /\ refreshed' = <<>>
    /\ given' = NoViewState
    /\ returned' = NoResult
    /\ \E q \in Locations(model, element) :
         /\ model[q].collapsible
         /\ model[q].collapsed # collapsed
         /\ model' = [model EXCEPT ![q].collapsed = collapsed]
    /\ thrown' = "none"
    /\ UNCHANGED <<saveVars, outlineVars, serviceVars, identityProvider, input, dataSource, changes,
                   focus, selection>>

\* the elements a hierarchy reports at or below element e
RECURSIVE Subtree(_, _)
Subtree(h, e) == {e} \cup UNION { Subtree(h, h[e][i]) : i \in DOMAIN h[e] }

\* hierarchy h without element e below its parent; e keeps its own children
Detach(h, e) ==
    [x \in DOMAIN h |-> SelectSeq(h[x], LAMBDA y : y # e)]

\* hierarchy h with element e as child number pos of parent
Attach(h, e, parent, pos) ==
    [h EXCEPT ![parent] = SubSeq(@, 1, pos - 1) \o <<e>> \o SubSeq(@, pos, Len(@))]

\* the data source starts to report another hierarchy: an element appears,
\* or moves (with its subtree) to another place
DataSource_move ==
    /\ changes < MaxChanges
    /\ changes' = changes + 1
    /\ \E e \in Elements :
         LET h == Detach(dataSource, e)
         IN  \E parent \in ({"root"} \cup Reported(h)) \ Subtree(h, e) :
               \E pos \in 1..(Len(h[parent]) + 1) :
                 /\ Attach(h, e, parent, pos) # dataSource
                 /\ dataSource' = Attach(h, e, parent, pos)
    /\ UNCHANGED <<saveVars, outlineVars, serviceVars, identityProvider, input, model, focus,
                   selection, thrown, called, unchanged, refreshed,
                   given, returned>>

\* the data source stops reporting an element and everything below it
DataSource_remove ==
    /\ changes < MaxChanges
    /\ changes' = changes + 1
    /\ \E e \in Reported(dataSource) :
         dataSource' = [x \in DOMAIN dataSource |->
                          IF x \in Subtree(dataSource, e) THEN <<>>
                          ELSE SelectSeq(dataSource[x], LAMBDA y : y # e)]
    /\ UNCHANGED <<saveVars, outlineVars, serviceVars, identityProvider, input, model, focus,
                   selection, thrown, called, unchanged, refreshed,
                   given, returned>>

TreeNext ==
    \/ \E in \in Inputs : DataTree_setInput(in)
    \/ \E in \in Inputs, viewState \in ViewStates :
         DataTree_setInputWithViewState(in, viewState)
    \/ \E element \in Inputs \cup Elements : DataTree_updateChildren(element)
    \/ DataTree_getViewState
    \/ \E element \in Elements, collapsed \in BOOLEAN :
         Tree_setCollapsed(element, collapsed)
    \/ DataSource_move
    \/ DataSource_remove


(***************************************************************************)
(* RequestOracle (outlinePanel.ts).  The oracle watches the active editor  *)
(* and the document symbol provider registry and tells its callback when   *)
(* the outline has to be computed again.  Time is counted in milliseconds  *)
(* and advances in the steps of TickSteps; a timer fires when its time is  *)
(* up, before time advances further.                                       *)
(***************************************************************************)
Editors == {"e1", "e2"}

TextModels == {"m1", "m2"}

\* the steps in which time advances
TickSteps == {50, 300, 350}

\* the delay of the content listener's setTimeout
DebounceMs == 350

\* sinceEvent stops counting here, past the debounce delay
SinceEventCap == DebounceMs + 50

\* _lastState = undefined
NoState == [editorId |-> "none", modelId |-> "none", modelVersion |-> 0,
            providerCount |-> 0]

\* new RequestState(codeEditor.getId(), model.id, model.getVersionId(),
\*                  registry.all(model).length)
RequestState(_editorId, _modelId, _modelVersion, _providerCount) ==
    [editorId |-> _editorId, modelId |-> _modelId,
     modelVersion |-> _modelVersion, providerCount |-> _providerCount]

\* RequestState.equals(other): other is defined and the four fields agree
RequestState_equals(this, other) ==
    /\ other # NoState
    /\ this.editorId = other.editorId
    /\ this.modelId = other.modelId
    /\ this.modelVersion = other.modelVersion
    /\ this.providerCount = other.providerCount

\* no session yet
NoSession == [editor |-> "none", alive |-> FALSE]

\* let handle: no timer is set
NoHandle == [armed |-> FALSE, remaining |-> 0, event |-> 0]

\* a session disposable that removes the listeners and leaves the timer
SessionDisposable_dispose_keeps_timer ==
    /\ session' = [session EXCEPT !.alive = FALSE]
    /\ UNCHANGED <<handle, cancelled>>

\* dispose(this._sessionDisposable): the three listeners are removed and
\* the timer is cleared
SessionDisposable_dispose ==
    /\ session' = [session EXCEPT !.alive = FALSE]
    /\ handle' = NoHandle
    /\ cancelled' = IF handle.armed THEN cancelled \cup {handle.event}
                    ELSE cancelled

\* RequestOracle.dispose() (lines 87-90): the two subscriptions and the
\* session go
RequestOracle_disposes ==
    /\ oracleDisposed' = TRUE
    /\ SessionDisposable_dispose
    /\ UNCHANGED <<widget, editorModel, versionIds, providers, disposedEditors,
                   lastState, events, calls, lastCall, delivered,
                   sinceEvent, lastEvent>>

\* whether _update, having computed thisState, returns without a callback
update_returns_early(thisState) ==
    lastState # NoState /\ RequestState_equals(thisState, lastState)

(***************************************************************************)
(* OutlinePanel (outlinePanel.ts).  _doUpdate is an async function: a call *)
(* runs to its first await, and goes on when the outline model was created *)
(* and when the wait of a drastic change is over.  The tree is taken as a  *)
(* whole here: its input and the view state getViewState() would return.   *)
(***************************************************************************)
\* the documents the updates of the model are for: "u1" is the first of
\* those viewed before the model begins, "u11" was not viewed before
PanelDocs == {"u1", "u11"}

\* new LRUCache<string, IDataTreeViewState>(10)
TreeStatesLimit == 10

\* textModel.getLineCount() >= 25
DrasticMinLines == 25

\* the view states told apart: the one of a tree just given its input, the
\* one the user brings about, and the one cached before the model begins
ViewTokens == {"fresh", "user", "old"}

\* event.changes of the content-change events of the model; a change is
\* the length of the range it replaced and the length of the text it put
\* there: an insertion of 20 characters, a deletion of 100, a replacement
\* of 300 by 100, and an insertion together with a deletion
ContentEvents ==
    { << [rangeLength |-> 0, textLength |-> 20] >>,
      << [rangeLength |-> 100, textLength |-> 0] >>,
      << [rangeLength |-> 300, textLength |-> 100] >>,
      << [rangeLength |-> 0, textLength |-> 20],
         [rangeLength |-> 100, textLength |-> 0] >> }

\* event === undefined
NoEvent == <<>>

\* textModel.getLineCount()
LineCounts == {24, 25}

\* textModel.getValueLength()
ValueLengths == {200}

\* TreeElement.size of a created outline model; 0 for one without symbols
ModelSizes == {0, 2, 3}

\* this._tree.getInput() === undefined
NoModel == [obj |-> -1, uri |-> "none"]

\* the outline model objects: the i-th update creates object i, object 0 is
\* the one the tree shows when the model begins, if it shows one
Objects == 0..MaxUpdates

\* the outline model the tree may show when the model begins: the one of a
\* document viewed after those of the cache
ShownBefore == [obj |-> 0, uri |-> "u11"]

\* the history of a step that is no step of _doUpdate
NoStep == [update |-> 0, at |-> "none", stored |-> "none", newSize |-> 0,
           newLength |-> 0, oldSize |-> 0, changes |-> <<>>, lineCount |-> 0,
           hadOld |-> FALSE, waited |-> FALSE, mergeable |-> FALSE,
           applied |-> "no", restored |-> "none", superseded |-> "no",
           showed |-> "none", registered |-> FALSE]

\* an update that was not called yet
NoUpdate == [pc |-> "idle", doc |-> "none", event |-> NoEvent,
             oldModel |-> NoModel, loading |-> FALSE,
             mergeable |-> FALSE, superseded |-> "no"]

\* no outline model object
NoOutlineModel == [uri |-> "none", size |-> 0]

\* LRUCache: the keys of the entries
LRUCache_keys(cache) == { cache[i].key : i \in 1..Len(cache) }

\* the entries without the one of key
LRUCache_without(cache, key) ==
    SelectSeq(cache, LAMBDA entry : entry.key # key)

\* LRUCache.get(key): the value, "none" for undefined
LRUCache_get(cache, key) ==
    IF key \in LRUCache_keys(cache)
    THEN cache[CHOOSE i \in 1..Len(cache) : cache[i].key = key].value
    ELSE "none"

\* the entries after get(key): the one found becomes the most recent
LRUCache_touched(cache, key) ==
    IF key \in LRUCache_keys(cache)
    THEN Append(LRUCache_without(cache, key),
                [key |-> key, value |-> LRUCache_get(cache, key)])
    ELSE cache

\* the entries cut down to the limit, the least recently used going first
LRUCache_trim(cache) ==
    IF Len(cache) > TreeStatesLimit
    THEN SubSeq(cache, Len(cache) - TreeStatesLimit + 1, Len(cache))
    ELSE cache

\* the entries after set(key, value)
LRUCache_set(cache, key, value) ==
    LRUCache_trim(Append(LRUCache_without(cache, key),
                         [key |-> key, value |-> value]))

\* the keys used, key being used now
Used(keys, key) == Append(SelectSeq(keys, LAMBDA k : k # key), key)

\* the documents viewed before the model begins, the first viewed first
ViewedBefore == <<"u1", "u2", "u3", "u4", "u5", "u6", "u7", "u8", "u9", "u10">>

\* the cache after these were viewed: each holds a view state of the user
FullCache == [i \in 1..Len(ViewedBefore) |->
                 [key |-> ViewedBefore[i], value |-> "old"]]

RECURSIVE SumRangeLength(_)
\* event.changes.reduce((prev, value) => prev + value.rangeLength, 0)
SumRangeLength(changes_) ==
    IF changes_ = <<>> THEN 0
    ELSE changes_[1].rangeLength + SumRangeLength(Tail(changes_))

\* a ratio check that leaves out whether the update comes from an edit
_doUpdate_checksRatio_any_update(event, oldModel, lineCount) ==
    oldModel # NoModel /\ lineCount >= DrasticMinLines

\* if (event && oldModel && textModel.getLineCount() >= 25)
_doUpdate_checksRatio(event, oldModel, lineCount) ==
    event # NoEvent /\ oldModel # NoModel /\ lineCount >= DrasticMinLines

\* let oldLength = newLength - event.changes.reduce(...rangeLength...)
_doUpdate_oldLength(newLength, event) == newLength - SumRangeLength(event)

\* newRatio <= oldRatio * 0.5 || newRatio >= oldRatio * 1.5, the ratios being
\* newSize / newLength and oldSize / oldLength in JavaScript numbers, with
\* sizes and newLength above 0: for oldLength = 0 the old ratio is Infinity
\* and the first comparison holds, below 0 it is negative and the second
\* one holds
_doUpdate_drastic(newSize, newLength, oldSize, oldLength) ==
    IF oldLength > 0
    THEN \/ 2 * newSize * oldLength <= oldSize * newLength
         \/ 2 * newSize * oldLength >= 3 * oldSize * newLength
    ELSE TRUE

\* createCancelablePromise never cancelled
_createOutlineModel_ignores_cancel(cancelRequested) == FALSE

\* _createOutlineModel resolves to undefined: the promise was cancelled and
\* the catch turned the cancellation error into undefined
_createOutlineModel_undefined(cancelRequested) == cancelRequested

\* storing the view state under the document of the update
_doUpdate_storedKey_new(oldModel, doc) == doc

\* this._treeStates.set(oldModel.textModel.uri.toString(), state)
_doUpdate_storedKey(oldModel, doc) == oldModel.uri

\* a _showMessage that leaves the tree its input
_showMessage_keeps_input(text) ==
    /\ message' = text
    /\ UNCHANGED <<treeInput, viewToken>>

\* _showMessage(message): the tree loses its input
_showMessage(text) ==
    /\ message' = text
    /\ treeInput' = NoModel
    /\ viewToken' = "fresh"

PanelInit ==
    /\ treeInput \in {NoModel, ShownBefore}
    /\ viewToken = "fresh"
    /\ treeStates \in {<<>>, FullCache}
    /\ message = "none"
    /\ outlineModels \in
           { [i \in Objects |->
                 IF i = 0 /\ treeInput # NoModel
                 THEN [uri |-> treeInput.uri, size |-> size]
                 ELSE NoOutlineModel] : size \in ModelSizes \ {0} }
    /\ updates = [i \in 1..MaxUpdates |-> NoUpdate]
    /\ started = 0
    /\ listeners = {}
    /\ panelDisposed = FALSE
    /\ lastStep = NoStep
    /\ used = [i \in 1..Len(treeStates) |-> treeStates[i].key]

\* no panel is at work
PanelIdle ==
    /\ treeInput = NoModel
    /\ viewToken = "fresh"
    /\ treeStates = <<>>
    /\ message = "none"
    /\ outlineModels = [i \in Objects |-> NoOutlineModel]
    /\ updates = [i \in 1..MaxUpdates |-> NoUpdate]
    /\ started = 0
    /\ listeners = {}
    /\ panelDisposed = TRUE
    /\ lastStep = NoStep
    /\ used = <<>>

\* whether update u is under way: awaiting the outline model or the wait
InFlight(u) == u.pc \in {"creating", "waiting"}

\* update u having returned: what it captured is dropped
Returned(u) ==
    [NoUpdate EXCEPT !.pc = "done", !.superseded = u.superseded]

\* update u, awaiting its outline model when this._editorDisposables is
\* disposed: promise.cancel() rejects the promise, _createOutlineModel
\* resolves to undefined and _doUpdate goes on from line 440 before
\* anything else runs: it disposes the loading timer and returns (441-444)
Cancelled(u) ==
    IF _createOutlineModel_undefined(TRUE)
    THEN [NoUpdate EXCEPT !.pc = "cancelled", !.superseded = u.superseded]
    ELSE u

\* update u when a newer update begins: it is superseded, and cancelled
\* if it awaits its outline model
Superseded(u) ==
    LET v == [u EXCEPT !.superseded = IF @ = "no" THEN u.pc ELSE @]
    IN  IF u.pc = "creating" THEN Cancelled(v) ELSE v

\* the outline model objects still referred to, by the tree as its input
\* or by an update under way as the old or the new model
Referenced(models, in, ups) ==
    [i \in Objects |->
        IF \/ in.obj = i
           \/ \E j \in 1..MaxUpdates :
                  InFlight(ups[j]) /\ (j = i \/ ups[j].oldModel.obj = i)
        THEN models[i] ELSE NoOutlineModel]

\* _doUpdate(editor, event) up to its first await (lines 413-440); doc is
\* the document of the editor, "none" when there is no editor, no model or
\* no document symbol provider
_doUpdate_call(doc, event) ==
    /\ ~ panelDisposed
    /\ started < MaxUpdates
    /\ started' = started + 1
    /\ listeners' = {}
    /\ UNCHANGED panelDisposed
    /\ LET i == started + 1
           oldModel == treeInput
           key == IF oldModel = NoModel THEN "none"
                  ELSE _doUpdate_storedKey(oldModel, doc)
       IN  /\ treeStates' = IF key = "none" THEN treeStates
                            ELSE LRUCache_set(treeStates, key, viewToken)
           /\ used' = IF key = "none" THEN used ELSE Used(used, key)
           /\ lastStep' = [NoStep EXCEPT
                              !.update = i, !.at = "begin", !.stored = key,
                              !.showed = IF doc = "none" THEN "no-editor"
                                         ELSE "none"]
           /\ updates' = [j \in 1..MaxUpdates |->
                  IF j = i
                  THEN IF doc = "none" THEN Returned(NoUpdate)
                       ELSE [NoUpdate EXCEPT
                                !.pc = "creating", !.doc = doc,
                                !.event = event, !.oldModel = oldModel,
                                !.loading = (oldModel = NoModel)]
                  ELSE IF InFlight(updates[j]) THEN Superseded(updates[j])
                  ELSE updates[j]]
    /\ IF doc = "none" THEN _showMessage("no-editor")
       ELSE UNCHANGED <<treeInput, viewToken, message>>
    /\ outlineModels' = Referenced(outlineModels, treeInput', updates')

\* _doUpdate is called with an editor of the document doc and an event
_doUpdate_begin(doc, event) ==
    /\ event # NoEvent => doc # "none"
    /\ _doUpdate_call(doc, event)
    /\ UNCHANGED <<saveVars, treeVars, serviceVars, oracleVars>>

\* _doUpdate from line 483 on, for update i in the state u, models being
\* the outline models there are and step the history of the step so far:
\* merge into the old model and refresh, or give the tree the new model
\* with the cached view state of its document; then register the listeners
_doUpdate_applies(i, u, models, step) ==
    IF u.oldModel # NoModel /\ u.mergeable
    THEN /\ UNCHANGED <<treeStates, used, treeInput, viewToken>>
         /\ IF treeInput = NoModel
            THEN \* DataTree.updateChildren throws: the input is not set
                 /\ updates' = [updates EXCEPT ![i] = Returned(u)]
                 /\ lastStep' = [step EXCEPT !.applied = "threw"]
                 /\ UNCHANGED listeners
            ELSE /\ updates' = [updates EXCEPT ![i] = Returned(u)]
                 /\ lastStep' = [step EXCEPT !.applied = "merge",
                                             !.registered = TRUE]
                 /\ listeners' = listeners \cup {i}
         /\ outlineModels' = Referenced(
                [models EXCEPT ![u.oldModel.obj].size = models[i].size],
                treeInput', updates')
    ELSE LET state == LRUCache_get(treeStates, u.doc) IN
         /\ treeStates' = LRUCache_touched(treeStates, u.doc)
         /\ used' = IF state = "none" THEN used ELSE Used(used, u.doc)
         /\ treeInput' = [obj |-> i, uri |-> u.doc]
         /\ viewToken' = IF state = "none" THEN "fresh" ELSE state
         /\ updates' = [updates EXCEPT ![i] = Returned(u)]
         /\ lastStep' = [step EXCEPT !.applied = "replace",
                                     !.restored = state,
                                     !.registered = TRUE]
         /\ listeners' = listeners \cup {i}
         /\ outlineModels' = Referenced(models, treeInput', updates')

\* _doUpdate from line 440 on: OutlineModel.create gave a model of newSize
\* symbols for a document of newLength characters and lineCount lines
_doUpdate_created(i, newSize, newLength, lineCount, mergeable) ==
    /\ updates[i].pc = "creating"
    /\ UNCHANGED <<started, panelDisposed>>
    /\ UNCHANGED <<saveVars, treeVars, serviceVars, oracleVars>>
    /\ LET u == updates[i]
           models == [outlineModels EXCEPT
                         ![i] = [uri |-> u.doc, size |-> newSize]]
           oldSize == IF u.oldModel = NoModel THEN 0
                      ELSE outlineModels[u.oldModel.obj].size
           waits == /\ _doUpdate_checksRatio(u.event, u.oldModel, lineCount)
                    /\ _doUpdate_drastic(newSize, newLength, oldSize,
                           _doUpdate_oldLength(newLength, u.event))
           v == [u EXCEPT !.loading = FALSE, !.event = NoEvent,
                          !.mergeable = mergeable]
           step == [NoStep EXCEPT
                       !.update = i, !.at = "check", !.newSize = newSize,
                       !.newLength = newLength, !.oldSize = oldSize,
                       !.changes = u.event, !.lineCount = lineCount,
                       !.hadOld = (u.oldModel # NoModel),
                       !.waited = waits, !.mergeable = mergeable,
                       !.superseded = u.superseded]
       IN  IF newSize = 0
           THEN /\ _showMessage("no-symbols")
                /\ updates' = [updates EXCEPT ![i] = Returned(v)]
                /\ lastStep' = [NoStep EXCEPT
                                   !.update = i, !.at = "empty",
                                   !.showed = "no-symbols",
                                   !.superseded = u.superseded]
                /\ outlineModels' = Referenced(models, treeInput', updates')
                /\ UNCHANGED <<treeStates, listeners, used>>
           ELSE /\ message' = "none"
                /\ IF waits
                   THEN /\ updates' = [updates EXCEPT ![i] =
                               [v EXCEPT !.pc = "waiting"]]
                        /\ lastStep' = step
                        /\ outlineModels' = models
                        /\ UNCHANGED <<treeInput, viewToken, treeStates,
                                       listeners, used>>
                   ELSE _doUpdate_applies(i, v, models, step)

\* the timer of the loading message fires (lines 434-437)
LoadingTimer_fires(i) ==
    /\ updates[i].pc = "creating"
    /\ updates[i].loading
    /\ _showMessage("loading")
    /\ updates' = [updates EXCEPT ![i].loading = FALSE]
    /\ lastStep' = [NoStep EXCEPT !.update = i, !.at = "loading",
                                  !.showed = "loading",
                                  !.superseded = updates[i].superseded]
    /\ outlineModels' = Referenced(outlineModels, treeInput', updates')
    /\ UNCHANGED <<treeStates, started, listeners, panelDisposed, used>>
    /\ UNCHANGED <<saveVars, treeVars, serviceVars, oracleVars>>

\* the timer of the wait fires: resolve(true) (lines 465-468)
WaitTimer_fires(i) ==
    /\ updates[i].pc = "waiting"
    /\ _doUpdate_applies(i, updates[i], outlineModels,
                         [NoStep EXCEPT !.update = i, !.at = "apply",
                             !.mergeable = updates[i].mergeable,
                             !.superseded = updates[i].superseded])
    /\ UNCHANGED <<message, started, panelDisposed>>
    /\ UNCHANGED <<saveVars, treeVars, serviceVars, oracleVars>>

\* the user expands, collapses, focuses or selects in the tree
Tree_user(token) ==
    /\ ~ panelDisposed
    /\ treeInput # NoModel
    /\ token \notin {"fresh", "old", viewToken}
    /\ viewToken' = token
    /\ lastStep' = NoStep
    /\ UNCHANGED <<treeInput, treeStates, message, outlineModels, updates,
                   started, listeners, panelDisposed, used>>
    /\ UNCHANGED <<saveVars, treeVars, serviceVars, oracleVars>>

\* the configuration keys the panel listens to: outline.icons and
\* outline.problems.badges, .colors and .enabled
ConfigKeys == {"icons", "problemsBadges", "problemsColors", "problemsEnabled"}

\* the listener of renderBody (330-334): whether it calls
\* this._tree.updateChildren()
renderBody_refreshes(key) == key = "icons"

\* updateMarker(e, ignoreEmpty) (542-554): whether it calls
\* this._tree.updateChildren(); matches says that e names the document
updateMarker_refreshes(problemsEnabled, matches, hasMarkers, ignoreEmpty) ==
    problemsEnabled /\ matches /\ (hasMarkers \/ ~ ignoreEmpty)

\* the configuration listener of an update (558-572): whether it calls
\* this._tree.updateChildren(), itself or through updateMarker
_doUpdate_configRefreshes(key, problemsEnabled, hasMarkers) ==
    \/ key \in {"problemsBadges", "problemsColors"}
    \/ /\ key = "problemsEnabled"
       /\ \/ ~ problemsEnabled
          \/ updateMarker_refreshes(problemsEnabled, TRUE, hasMarkers, TRUE)

\* DataTree.updateChildren() called by a listener of the panel: it throws
\* 'Tree input not set' if the tree has no input, else it refreshes
Listener_updateChildren ==
    /\ lastStep' = [NoStep EXCEPT
                       !.at = "listener",
                       !.applied = IF treeInput = NoModel THEN "threw"
                                   ELSE "refresh"]
    /\ UNCHANGED <<treeInput, viewToken, treeStates, message, outlineModels,
                   updates, started, listeners, panelDisposed, used>>
    /\ UNCHANGED <<saveVars, treeVars, serviceVars, oracleVars>>

\* the configuration changes for key: the listener of renderBody and the
\* listeners the updates registered run
Configuration_onDidChange(key, problemsEnabled, hasMarkers) ==
    /\ ~ panelDisposed
    /\ \/ renderBody_refreshes(key)
       \/ /\ listeners # {}
          /\ _doUpdate_configRefreshes(key, problemsEnabled, hasMarkers)
    /\ Listener_updateChildren

\* the markers change: the marker listeners the updates registered run
\* (557), updateMarker being called with the resources of the event alone
MarkerService_onMarkerChanged(problemsEnabled, matches, hasMarkers) ==
    /\ ~ panelDisposed
    /\ listeners # {}
    /\ updateMarker_refreshes(problemsEnabled, matches, hasMarkers, FALSE)
    /\ Listener_updateChildren

\* OutlinePanel.dispose(): this._disposables ends the waits with
\* resolve(false), the oracle is disposed if there is one, and
\* this._editorDisposables cancels the outline models being created and
\* removes the listeners
OutlinePanel_dispose ==
    /\ ~ panelDisposed
    /\ panelDisposed' = TRUE
    /\ listeners' = {}
    /\ updates' = [j \in 1..MaxUpdates |->
           IF updates[j].pc = "waiting" THEN Returned(updates[j])
           ELSE IF updates[j].pc = "creating" THEN Cancelled(updates[j])
           ELSE updates[j]]
    /\ lastStep' = NoStep
    /\ outlineModels' = Referenced(outlineModels, treeInput, updates')
    /\ UNCHANGED <<treeInput, viewToken, treeStates, message,
                   started, used>>
    /\ IF oracleDisposed THEN UNCHANGED oracleVars
       ELSE RequestOracle_disposes
    /\ UNCHANGED <<saveVars, treeVars, serviceVars>>

PanelNext ==
    \/ \E doc \in {"none"} \cup PanelDocs,
          event \in {NoEvent} \cup ContentEvents :
           _doUpdate_begin(doc, event)
    \/ \E i \in 1..MaxUpdates, newSize \in ModelSizes,
          newLength \in ValueLengths, lineCount \in LineCounts,
          mergeable \in BOOLEAN :
           _doUpdate_created(i, newSize, newLength, lineCount, mergeable)
    \/ \E i \in 1..MaxUpdates : LoadingTimer_fires(i)
    \/ \E i \in 1..MaxUpdates : WaitTimer_fires(i)
    \/ \E token \in ViewTokens : Tree_user(token)
    \/ \E key \in ConfigKeys, problemsEnabled \in BOOLEAN,
          hasMarkers \in BOOLEAN :
           Configuration_onDidChange(key, problemsEnabled, hasMarkers)
    \/ \E problemsEnabled \in BOOLEAN, matches \in BOOLEAN,
          hasMarkers \in BOOLEAN :
           MarkerService_onMarkerChanged(problemsEnabled, matches, hasMarkers)
    \/ OutlinePanel_dispose

(***************************************************************************)
(* RequestOracle: its callback, _update and the events it listens to       *)
(***************************************************************************)
\* the document of a text model, as the panel's updates name it
TextDocument(textModel) == IF textModel = "m1" THEN "u1" ELSE "u11"

\* what _doUpdate finds at line 427 for the editor it is called with, in
\* the environment the step leaves: "none" without an editor, without a
\* text model (a disposed editor has none) or without a provider
_doUpdate_document(editor) ==
    IF editor = "none" \/ editor \in disposedEditors' THEN "none"
    ELSE LET textModel == editorModel'[editor]
         IN  IF textModel = "none" \/ providers'[textModel] = 0 THEN "none"
             ELSE TextDocument(textModel)

\* this._callback(editor, event); event 0 stands for undefined.  The
\* callback of the panel's oracle is (editor, event) =>
\* this._doUpdate(editor, event) (line 338); an oracle on its own has a
\* callback that leaves the panel alone
_callback(editor, event) ==
    /\ calls' = calls + 1
    /\ lastCall' = [editor |-> editor, event |-> event]
    /\ delivered' = IF event = 0 THEN delivered
                    ELSE [delivered EXCEPT ![event] = @ + 1]
    /\ IF panelDisposed THEN UNCHANGED panelVars
       ELSE \E changes_ \in IF event = 0 THEN {NoEvent} ELSE ContentEvents :
                _doUpdate_call(_doUpdate_document(editor), changes_)

\* RequestOracle._update(), evaluated in the environment the step leaves
RequestOracle_update ==
    LET codeEditor == widget' IN
    IF codeEditor = "none" \/ editorModel'[codeEditor] = "none"
    THEN /\ lastState' = NoState
         /\ _callback("none", 0)
         /\ UNCHANGED <<session, handle, cancelled>>
    ELSE LET textModel == editorModel'[codeEditor]
             thisState == RequestState(codeEditor, textModel,
                                       versionIds'[textModel],
                                       providers'[textModel])
         IN  IF update_returns_early(thisState)
             THEN UNCHANGED <<lastState, session, handle, cancelled,
                              calls, lastCall, delivered, panelVars>>
             ELSE /\ cancelled' = IF handle.armed
                                  THEN cancelled \cup {handle.event}
                                  ELSE cancelled
                  /\ lastState' = thisState
                  /\ _callback(codeEditor, 0)
                  /\ session' = [editor |-> codeEditor, alive |-> TRUE]
                  /\ handle' = NoHandle

\* the state the constructor leaves: it subscribes to the two events and
\* calls _update() once
OracleInit ==
    /\ widget \in {"none"} \cup Editors
    /\ editorModel = [e \in Editors |-> IF e = "e1" THEN "m1" ELSE "m2"]
    /\ versionIds = [m \in TextModels |-> 1]
    /\ providers \in [TextModels -> {1}]
    /\ disposedEditors = {}
    /\ lastState = IF widget = "none" THEN NoState
                   ELSE RequestState(widget, editorModel[widget],
                                     versionIds[editorModel[widget]],
                                     providers[editorModel[widget]])
    /\ session = IF widget = "none" THEN NoSession
                 ELSE [editor |-> widget, alive |-> TRUE]
    /\ handle = NoHandle
    /\ oracleDisposed = FALSE
    /\ events = 0
    /\ calls = 1
    /\ lastCall = [editor |-> widget, event |-> 0]
    /\ delivered = [k \in 1..MaxEvents |-> 0]
    /\ cancelled = {}
    /\ sinceEvent = SinceEventCap
    /\ lastEvent = 0

\* no oracle is at work
OracleIdle ==
    /\ widget = "none"
    /\ editorModel = [e \in Editors |-> "none"]
    /\ versionIds = [m \in TextModels |-> 1]
    /\ providers = [m \in TextModels |-> 0]
    /\ disposedEditors = {}
    /\ lastState = NoState
    /\ session = NoSession
    /\ handle = NoHandle
    /\ oracleDisposed = TRUE
    /\ events = 0
    /\ calls = 0
    /\ lastCall = [editor |-> "none", event |-> 0]
    /\ delivered = [k \in 1..MaxEvents |-> 0]
    /\ cancelled = {}
    /\ sinceEvent = SinceEventCap
    /\ lastEvent = 0

\* editorService.onDidActiveEditorChange fires, w being the active code
\* editor from then on (the event also fires when w stays the same)
EditorService_onDidActiveEditorChange(w) ==
    /\ events < MaxEvents
    /\ w \notin disposedEditors
    /\ events' = events + 1
    /\ widget' = w
    /\ UNCHANGED <<editorModel, versionIds, providers, disposedEditors,
                   oracleDisposed, sinceEvent, lastEvent>>
    /\ IF oracleDisposed
       THEN UNCHANGED <<lastState, session, handle, cancelled,
                        calls, lastCall, delivered, panelVars>>
       ELSE RequestOracle_update
    /\ UNCHANGED <<saveVars, treeVars, serviceVars>>

\* featureRegistry.onDidChange fires, n providers being registered for m
\* from then on (the event also fires when the count stays the same)
FeatureRegistry_onDidChange(m, n) ==
    /\ events < MaxEvents
    /\ events' = events + 1
    /\ providers' = [providers EXCEPT ![m] = n]
    /\ UNCHANGED <<widget, editorModel, versionIds, disposedEditors,
                   oracleDisposed, sinceEvent, lastEvent>>
    /\ IF oracleDisposed
       THEN UNCHANGED <<lastState, session, handle, cancelled,
                        calls, lastCall, delivered, panelVars>>
       ELSE RequestOracle_update
    /\ UNCHANGED <<saveVars, treeVars, serviceVars>>

\* whether the session's listeners hear the events of editor e
Listening(e) == session.alive /\ session.editor = e

\* a content listener that leaves a running timer alone
contentListener_keeps_timer(event) ==
    IF handle.armed THEN handle
    ELSE [armed |-> TRUE, remaining |-> DebounceMs, event |-> event]

\* clearTimeout(handle); handle = setTimeout(() => callback(editor, event), 350)
contentListener(event) ==
    [armed |-> TRUE, remaining |-> DebounceMs, event |-> event]

\* codeEditor.onDidChangeModelContent fires on editor e: the content
\* listener clears the timer and sets it anew
Editor_onDidChangeModelContent(e) ==
    /\ events < MaxEvents
    /\ e \notin disposedEditors
    /\ editorModel[e] # "none"
    /\ events' = events + 1
    /\ versionIds' = [versionIds EXCEPT ![editorModel[e]] = @ + 1]
    /\ IF Listening(e)
       THEN /\ handle' = contentListener(events')
            /\ sinceEvent' = 0
            /\ lastEvent' = events'
       ELSE UNCHANGED <<handle, sinceEvent, lastEvent>>
    /\ UNCHANGED <<widget, editorModel, providers, disposedEditors, lastState,
                   session, oracleDisposed, calls, lastCall, delivered,
                   cancelled>>
    /\ UNCHANGED <<saveVars, treeVars, serviceVars, panelVars>>

\* the timer of the content listener fires
Timer_fires ==
    /\ handle.armed
    /\ handle.remaining = 0
    /\ handle' = NoHandle
    /\ UNCHANGED <<widget, editorModel, versionIds, providers, disposedEditors,
                   lastState, session, oracleDisposed, events, cancelled,
                   sinceEvent, lastEvent>>
    /\ _callback(session.editor, handle.event)
    /\ UNCHANGED <<saveVars, treeVars, serviceVars>>

\* d milliseconds pass
Tick(d) ==
    /\ sinceEvent < SinceEventCap
    /\ handle.armed => d <= handle.remaining
    /\ handle' = IF handle.armed
                 THEN [handle EXCEPT !.remaining = @ - d]
                 ELSE handle
    /\ sinceEvent' = IF sinceEvent + d > SinceEventCap THEN SinceEventCap
                     ELSE sinceEvent + d
    /\ UNCHANGED <<widget, editorModel, versionIds, providers, disposedEditors,
                   lastState, session, oracleDisposed, events, calls,
                   lastCall, delivered, cancelled, lastEvent>>
    /\ UNCHANGED <<saveVars, treeVars, serviceVars, panelVars>>

\* codeEditor.onDidChangeModelLanguage fires on editor e
Editor_onDidChangeModelLanguage(e) ==
    /\ events < MaxEvents
    /\ e \notin disposedEditors
    /\ editorModel[e] # "none"
    /\ events' = events + 1
    /\ UNCHANGED <<widget, editorModel, versionIds, providers, disposedEditors,
                   lastState, session, handle, oracleDisposed, cancelled,
                   sinceEvent, lastEvent>>
    /\ IF Listening(e)
       THEN _callback(e, 0)
       ELSE UNCHANGED <<calls, lastCall, delivered, panelVars>>
    /\ UNCHANGED <<saveVars, treeVars, serviceVars>>

\* editor e is disposed and codeEditor.onDidDispose fires; a disposed
\* editor is no longer the active one
Editor_onDidDispose(e) ==
    /\ events < MaxEvents
    /\ e \notin disposedEditors
    /\ events' = events + 1
    /\ disposedEditors' = disposedEditors \cup {e}
    /\ widget' = IF widget = e THEN "none" ELSE widget
    /\ UNCHANGED <<editorModel, versionIds, providers, lastState, session,
                   handle, oracleDisposed, cancelled, sinceEvent, lastEvent>>
    /\ IF Listening(e)
       THEN _callback("none", 0)
       ELSE UNCHANGED <<calls, lastCall, delivered, panelVars>>
    /\ UNCHANGED <<saveVars, treeVars, serviceVars>>

\* editor e is given the text model m, or none
Editor_setModel(e, m) ==
    /\ events < MaxEvents
    /\ e \notin disposedEditors
    /\ editorModel[e] # m
    /\ events' = events + 1
    /\ editorModel' = [editorModel EXCEPT ![e] = m]
    /\ UNCHANGED <<widget, versionIds, providers, disposedEditors, lastState,
                   session, handle, oracleDisposed, calls, lastCall,
                   delivered, cancelled, sinceEvent, lastEvent>>
    /\ UNCHANGED <<saveVars, treeVars, serviceVars, panelVars>>

\* RequestOracle.dispose(): the two subscriptions and the session go
RequestOracle_dispose ==
    /\ ~ oracleDisposed
    /\ RequestOracle_disposes
    /\ UNCHANGED <<saveVars, treeVars, serviceVars, panelVars>>

OracleNext ==
    \/ \E w \in {"none"} \cup Editors : EditorService_onDidActiveEditorChange(w)
    \/ \E m \in TextModels, n \in 0..MaxProviders :
           FeatureRegistry_onDidChange(m, n)
    \/ \E e \in Editors : Editor_onDidChangeModelContent(e)
    \/ Timer_fires
    \/ \E d \in TickSteps : Tick(d)
    \/ \E e \in Editors : Editor_onDidChangeModelLanguage(e)
    \/ \E e \in Editors : Editor_onDidDispose(e)
    \/ \E e \in Editors, m \in {"none"} \cup TextModels : Editor_setModel(e, m)
    \/ RequestOracle_dispose

(***************************************************************************)
(* The panel with its oracle: the panel is visible, its oracle was         *)
(* constructed (line 338) and the update the constructor asked for is      *)
(* over: the tree shows the outline of the active editor's document, or a  *)
(* message when there is no editor or the document has no symbols.         *)
(***************************************************************************)
OutlineInit ==
    /\ OracleInit
    /\ widget \in {"none", "e1"}
    /\ treeInput \in
           {NoModel} \cup
           (IF widget = "none" THEN {}
            ELSE {[obj |-> 0, uri |-> TextDocument(editorModel[widget])]})
    /\ viewToken = "fresh"
    /\ treeStates = <<>>
    /\ message = IF widget = "none" THEN "no-editor"
                 ELSE IF treeInput = NoModel THEN "no-symbols"
                 ELSE "none"
    /\ outlineModels \in
           { [i \in Objects |->
                 IF i = 0 /\ treeInput # NoModel
                 THEN [uri |-> treeInput.uri, size |-> size]
                 ELSE NoOutlineModel] : size \in ModelSizes \ {0} }
    /\ updates = [i \in 1..MaxUpdates |-> NoUpdate]
    /\ started = 0
    /\ listeners = IF treeInput = NoModel THEN {} ELSE {0}
    /\ panelDisposed = FALSE
    /\ lastStep = NoStep
    /\ used = <<>>

OutlineNext ==
    \/ \E w \in {"none"} \cup Editors : EditorService_onDidActiveEditorChange(w)
    \/ \E m \in TextModels, n \in 0..MaxProviders :
           FeatureRegistry_onDidChange(m, n)
    \/ \E e \in Editors : Editor_onDidChangeModelContent(e)
    \/ Timer_fires
    \/ Tick(DebounceMs)
    \/ \E e \in Editors : Editor_onDidChangeModelLanguage(e)
    \/ \E e \in Editors : Editor_onDidDispose(e)
    \/ \E i \in 1..MaxUpdates, newSize \in ModelSizes,
          newLength \in ValueLengths, lineCount \in LineCounts,
          mergeable \in BOOLEAN :
           _doUpdate_created(i, newSize, newLength, lineCount, mergeable)
    \/ \E i \in 1..MaxUpdates : LoadingTimer_fires(i)
    \/ \E i \in 1..MaxUpdates : WaitTimer_fires(i)
    \/ OutlinePanel_dispose

(***************************************************************************)
(* SaveParticipant and the static slot of TextFileEditorModel              *)
(* (mainThreadSaveParticipant.ts 405-426): the constructor hooks the       *)
(* instance into the model class, dispose() unhooks.                       *)
(***************************************************************************)
Instances == 1..MaxInstances

\* TextFileEditorModel.setSaveParticipant(handler): a static setter
TextFileEditorModel_setSaveParticipant(handler) ==
    saveParticipant' = handler

SlotInit ==
    /\ saveParticipant = 0
    /\ instances = [i \in Instances |-> "none"]

\* no SaveParticipant is constructed
SlotIdle == SlotInit

\* new SaveParticipant(...): "Hook into model" (line 420)
SaveParticipant_constructor(i) ==
    /\ instances[i] = "none"
    /\ instances' = [instances EXCEPT ![i] = "live"]
    /\ TextFileEditorModel_setSaveParticipant(i)
    /\ UNCHANGED <<saveVars, treeVars, outlineVars, syncVars, findVars,
                   storageVars, textVars, webVars>>

\* SaveParticipant.dispose() of instance i (lines 423-426)
SaveParticipant_dispose(i) ==
    /\ instances[i] = "live"
    /\ instances' = [instances EXCEPT ![i] = "disposed"]
    /\ TextFileEditorModel_setSaveParticipant(0)
    /\ UNCHANGED <<saveVars, treeVars, outlineVars, syncVars, findVars,
                   storageVars, textVars, webVars>>

SlotNext ==
    \/ \E i \in Instances : SaveParticipant_constructor(i)
    \/ \E i \in Instances : SaveParticipant_dispose(i)

(***************************************************************************)
(* Cursor and selection sync of the outline panel (outlinePanel.ts         *)
(* 504-539, 575-607): the listeners an update registers once the tree has  *)
(* its outline, and what they do on selection changes of the tree and on   *)
(* cursor moves of the editor.                                             *)
(***************************************************************************)
\* the symbols of the outline, and a group that is no OutlineElement
OutlineElements == {"s1", "s2"}
OutlineGroups == {"g"}

\* where the cursor may be: in no symbol, in s1, in s2; "none" is an
\* editor without a selection
Positions == {"none", "p0", "p1", "p2"}

\* e.browserEvent of the selection changes the user brings about; "fake"
\* is this._treeFakeUIEvent, "none" a change without a browser event
BrowserEvents == {"none", "keydown", "click", "dblclick"}

\* model.getItemEnclosingPosition(position, context): "none" is undefined
getItemEnclosingPosition(position) ==
    IF position = "p1" THEN "s1"
    ELSE IF position = "p2" THEN "s2"
    ELSE "none"

NoSync == [op |-> "none", browserEvent |-> "none", first |-> "none",
           opened |-> FALSE, followed |-> FALSE]

\* a selection listener that reveals whatever the origin of the change
onDidChangeSelection_reveals_any(browserEvent, first) ==
    first \in OutlineElements

\* the listener of this._tree.onDidChangeSelection (504-527): whether it
\* gets to _revealTreeSelection, which calls openEditor
onDidChangeSelection_reveals(browserEvent, first) ==
    /\ browserEvent # "fake"
    /\ first \in OutlineElements

\* a cursor listener that does not look at the version
onDidChangeCursorSelection_follows_stale(disposed, versionNow, versionThen) ==
    ~ disposed

\* the listener of editor.onDidChangeCursorSelection (532-539): whether
\* it calls _revealEditorSelection
onDidChangeCursorSelection_follows(disposed, versionNow, versionThen) ==
    /\ ~ disposed
    /\ versionNow = versionThen

\* _revealEditorSelection returns at line 588-590
_revealEditorSelection_returns(follow, hasInput, position) ==
    ~ follow \/ ~ hasInput \/ position = "none"

\* _revealEditorSelection(model, selection) in step op, the tree having
\* an input or not and the listeners being registered or not: setFocus
\* and setSelection carry this._treeFakeUIEvent, and the selection
\* change the tree fires reaches the selection listener with it
_revealEditorSelection(op, hasInput, listening, position) ==
    LET item == getItemEnclosingPosition(position) IN
    IF _revealEditorSelection_returns(followCursor, hasInput, position)
       \/ item = "none"
    THEN /\ UNCHANGED <<treeFocused, treeSelected>>
         /\ lastSync' = [NoSync EXCEPT !.op = op]
    ELSE /\ treeFocused' = item
         /\ treeSelected' = item
         /\ lastSync' = [op |-> op, browserEvent |-> "fake", first |-> item,
                         opened |-> listening /\
                             onDidChangeSelection_reveals("fake", item),
                         followed |-> TRUE]

\* the tree shows the outline of an update that is about to register its
\* listeners; the cursor is anywhere
SyncInit ==
    /\ followCursor \in BOOLEAN
    /\ outlineShown = TRUE
    /\ textVersion = 1
    /\ textDisposed = FALSE
    /\ subscribed = FALSE
    /\ versionIdThen = 0
    /\ cursor \in Positions
    /\ treeFocused = "none"
    /\ treeSelected = "none"
    /\ lastSync = NoSync

\* no outline is shown and nothing listens
SyncIdle ==
    /\ followCursor = FALSE
    /\ outlineShown = FALSE
    /\ textVersion = 1
    /\ textDisposed = FALSE
    /\ subscribed = FALSE
    /\ versionIdThen = 0
    /\ cursor = "none"
    /\ treeFocused = "none"
    /\ treeSelected = "none"
    /\ lastSync = NoSync

\* _doUpdate from line 485 on: the tree has the outline, the listeners
\* are registered, the editor's selection is revealed and the version id
\* is kept for the cursor listener (485-539)
_doUpdate_subscribes ==
    /\ ~ subscribed
    /\ ~ textDisposed
    /\ outlineShown' = TRUE
    /\ subscribed' = TRUE
    /\ versionIdThen' = textVersion
    /\ _revealEditorSelection("subscribe", TRUE, TRUE, cursor)
    /\ UNCHANGED <<followCursor, textVersion, textDisposed, cursor>>
    /\ UNCHANGED <<saveVars, treeVars, outlineVars, slotVars, findVars,
                   storageVars, textVars, webVars>>

\* the next _doUpdate begins: dispose(this._editorDisposables) (line 414)
_doUpdate_unsubscribes ==
    /\ subscribed
    /\ subscribed' = FALSE
    /\ lastSync' = NoSync
    /\ UNCHANGED <<followCursor, outlineShown, textVersion, textDisposed,
                   versionIdThen, cursor, treeFocused, treeSelected>>
    /\ UNCHANGED <<saveVars, treeVars, outlineVars, slotVars, findVars,
                   storageVars, textVars, webVars>>

\* the cursor moves to position; the cursor listener hears it if it is
\* registered
Editor_onDidChangeCursorSelection(position) ==
    /\ position # "none"
    /\ cursor' = position
    /\ IF /\ subscribed
          /\ onDidChangeCursorSelection_follows(textDisposed, textVersion,
                                                versionIdThen)
       THEN _revealEditorSelection("cursor", outlineShown, subscribed,
                                   position)
       ELSE /\ UNCHANGED <<treeFocused, treeSelected>>
            /\ lastSync' = [NoSync EXCEPT !.op = "cursor"]
    /\ UNCHANGED <<followCursor, outlineShown, textVersion, textDisposed,
                   subscribed, versionIdThen>>
    /\ UNCHANGED <<saveVars, treeVars, outlineVars, slotVars, findVars,
                   storageVars, textVars, webVars>>

\* the user selects in the tree, by keyboard, by mouse or otherwise:
\* first is the first element selected, "none" for an empty selection
Tree_userSelects(browserEvent, first) ==
    /\ outlineShown
    /\ treeFocused' = first
    /\ treeSelected' = first
    /\ lastSync' = [op |-> "select", browserEvent |-> browserEvent,
                    first |-> first,
                    opened |-> subscribed /\
                        onDidChangeSelection_reveals(browserEvent, first),
                    followed |-> FALSE]
    /\ UNCHANGED <<followCursor, outlineShown, textVersion, textDisposed,
                   subscribed, versionIdThen, cursor>>
    /\ UNCHANGED <<saveVars, treeVars, outlineVars, slotVars, findVars,
                   storageVars, textVars, webVars>>

\* the text model changes: its version id goes up
TextModel_onDidChangeContent ==
    /\ ~ textDisposed
    /\ textVersion < MaxVersions
    /\ textVersion' = textVersion + 1
    /\ lastSync' = NoSync
    /\ UNCHANGED <<followCursor, outlineShown, textDisposed, subscribed,
                   versionIdThen, cursor, treeFocused, treeSelected>>
    /\ UNCHANGED <<saveVars, treeVars, outlineVars, slotVars, findVars,
                   storageVars, textVars, webVars>>

\* the text model is disposed
TextModel_dispose ==
    /\ ~ textDisposed
    /\ textDisposed' = TRUE
    /\ lastSync' = NoSync
    /\ UNCHANGED <<followCursor, outlineShown, textVersion, subscribed,
                   versionIdThen, cursor, treeFocused, treeSelected>>
    /\ UNCHANGED <<saveVars, treeVars, outlineVars, slotVars, findVars,
                   storageVars, textVars, webVars>>

\* the user toggles "Follow Cursor" (lines 167-172, 368)
OutlineViewState_followCursor(value) ==
    /\ value # followCursor
    /\ followCursor' = value
    /\ lastSync' = NoSync
    /\ UNCHANGED <<outlineShown, textVersion, textDisposed, subscribed,
                   versionIdThen, cursor, treeFocused, treeSelected>>
    /\ UNCHANGED <<saveVars, treeVars, outlineVars, slotVars, findVars,
                   storageVars, textVars, webVars>>

\* _showMessage (395-400): the tree loses its input, and with it focus
\* and selection.  The listeners of an update that applied after a newer
\* one began are still registered when the newer one shows its message
Sync_showMessage ==
    /\ outlineShown
    /\ outlineShown' = FALSE
    /\ treeFocused' = "none"
    /\ treeSelected' = "none"
    /\ lastSync' = NoSync
    /\ UNCHANGED <<followCursor, textVersion, textDisposed, subscribed,
                   versionIdThen, cursor>>
    /\ UNCHANGED <<saveVars, treeVars, outlineVars, slotVars, findVars,
                   storageVars, textVars, webVars>>

SyncNext ==
    \/ _doUpdate_subscribes
    \/ _doUpdate_unsubscribes
    \/ \E position \in Positions : Editor_onDidChangeCursorSelection(position)
    \/ \E browserEvent \in BrowserEvents,
          first \in {"none"} \cup OutlineGroups \cup OutlineElements :
           Tree_userSelects(browserEvent, first)
    \/ TextModel_onDidChangeContent
    \/ TextModel_dispose
    \/ \E value \in BOOLEAN : OutlineViewState_followCursor(value)
    \/ Sync_showMessage

(***************************************************************************)
(* WebviewElement: find in page (558-602 of the file that holds the        *)
(* webview host).  The webview's find API is stateful: the first request   *)
(* of a search must not ask for the next match.                            *)
(***************************************************************************)
\* the strings searched for; the empty one is ignored
FindValues == {"", "a"}

\* a field of Electron.FindInPageOptions: set to true or false, or absent
OptionValues == {"true", "false", "undefined"}

\* options === undefined
NoOptions == [defined |-> FALSE, forward |-> "undefined",
              findNext |-> "undefined", matchCase |-> "undefined",
              medialCapitalAsWordStart |-> "undefined",
              wordStart |-> "undefined"]

\* the options callers pass
FindOptions ==
    {NoOptions} \cup
    [defined : {TRUE}, forward : {"true", "undefined"},
     findNext : OptionValues, matchCase : {"undefined"},
     medialCapitalAsWordStart : {"false", "undefined"},
     wordStart : {"true", "undefined"}]

\* no request reached the webview
NoRequest == [issued |-> FALSE, value |-> "", options |-> NoOptions]

NoFind == [op |-> "none", value |-> "", options |-> NoOptions,
           request |-> NoRequest, startedBefore |-> FALSE, first |-> FALSE]

\* this._webview.findInPage(value, options)
findInPage(value, options) ==
    [issued |-> TRUE, value |-> value, options |-> options]

\* startFind: findOptions, built from options || {} (lines 564-572)
startFind_findOptions(options) ==
    [defined |-> TRUE,
     forward |-> options.forward,
     findNext |-> "false",
     matchCase |-> options.matchCase,
     medialCapitalAsWordStart |-> options.medialCapitalAsWordStart,
     wordStart |-> "undefined"]

\* a find() that never goes through startFind
find_starts_never(_findStarted) == FALSE

\* find(): whether it hands over to startFind (line 591)
find_starts(_findStarted) == ~ _findStarted

FindInit ==
    /\ findStarted = FALSE
    /\ sinceStop = 0
    /\ lastFind = NoFind

\* no webview is at work
FindIdle == FindInit

\* what the step of a call leaves in the history
FindCalled(op, value, options, request) ==
    /\ lastFind' = [op |-> op, value |-> value, options |-> options,
                    request |-> request, startedBefore |-> findStarted,
                    first |-> (sinceStop = 0)]
    /\ sinceStop' = IF request.issued THEN sinceStop + 1 ELSE sinceStop

\* startFind(value, options) (lines 558-576)
WebviewElement_startFind(value, options) ==
    /\ sinceStop < MaxFinds
    /\ IF value = ""
       THEN /\ UNCHANGED findStarted
            /\ FindCalled("startFind", value, options, NoRequest)
       ELSE /\ findStarted' = TRUE
            /\ FindCalled("startFind", value, options,
                          findInPage(value, startFind_findOptions(options)))
    /\ UNCHANGED <<saveVars, treeVars, outlineVars, slotVars, syncVars,
                   storageVars, textVars, webVars>>

\* find(value, options) (lines 585-597)
WebviewElement_find(value, options) ==
    /\ sinceStop < MaxFinds
    /\ IF value = ""
       THEN /\ UNCHANGED findStarted
            /\ FindCalled("find", value, options, NoRequest)
       ELSE IF find_starts(findStarted)
       THEN /\ findStarted' = TRUE
            /\ FindCalled("find", value, options,
                          findInPage(value, startFind_findOptions(options)))
       ELSE /\ UNCHANGED findStarted
            /\ FindCalled("find", value, options, findInPage(value, options))
    /\ UNCHANGED <<saveVars, treeVars, outlineVars, slotVars, syncVars,
                   storageVars, textVars, webVars>>

\* stopFind(keepSelection) (lines 599-602)
WebviewElement_stopFind ==
    /\ findStarted' = FALSE
    /\ sinceStop' = 0
    /\ lastFind' = [NoFind EXCEPT !.op = "stopFind",
                                  !.startedBefore = findStarted,
                                  !.first = (sinceStop = 0)]
    /\ UNCHANGED <<saveVars, treeVars, outlineVars, slotVars, syncVars,
                   storageVars, textVars, webVars>>

FindNext ==
    \/ \E value \in FindValues, options \in FindOptions :
           WebviewElement_startFind(value, options)
    \/ \E value \in FindValues, options \in FindOptions :
           WebviewElement_find(value, options)
    \/ WebviewElement_stopFind

(***************************************************************************)
(* StorageMainService (683-1000 of the file that holds the outline panel): *)
(* initialize() with the migration of the global storage, store(),         *)
(* remove() and close().  Storage, the key-value store over a database,    *)
(* is a collaborator: set and delete change its cache and are flushed to   *)
(* the database later or on close; a closed Storage ignores them.          *)
(***************************************************************************)
StorageKeys == {"k1", "k2"}

\* the values stored; "none" is no item
StorageValues == {"v1"}

NoItems == [k \in StorageKeys |-> "none"]

\* new Storage(database), items being what the database holds
Storage(kind, items) ==
    [kind |-> kind, state |-> "none", cache |-> NoItems, pending |-> {},
     database |-> items]

\* Storage.set(key, value), Storage.delete(key) for the value "none"
Storage_set(s, key, value) ==
    IF s.state = "closed" THEN s
    ELSE [s EXCEPT !.cache[key] = value, !.pending = @ \cup {key}]

\* Storage.flushPending(): the changes reach the database
Storage_flushPending(s) ==
    [s EXCEPT !.database = [k \in StorageKeys |->
                               IF k \in s.pending THEN s.cache[k] ELSE @[k]],
              !.pending = {}]

\* Storage.close(): what is pending is flushed, then the database closes
Storage_close(s) ==
    IF s.state = "closed" THEN s
    ELSE [Storage_flushPending(s) EXCEPT !.state = "closed"]

\* what a listener of onWillSaveState may do: store(key, value), or
\* remove(key) as the value "none"
ListenerOps ==
    [key : StorageKeys, value : StorageValues \cup {"none"}]

\* the calls the listeners make while onWillSaveState fires, in order
ListenerRuns ==
    UNION { [1..n -> ListenerOps] : n \in 0..MaxListenerOps }

\* store(key, value) and remove(key) (980-986), one after the other
RECURSIVE StorageMainService_stored(_, _)
StorageMainService_stored(s, ops) ==
    IF ops = <<>> THEN s
    ELSE StorageMainService_stored(
             Storage_set(s, Head(ops).key, Head(ops).value), Tail(ops))

\* a close() that closes the storage and then fires onWillSaveState
StorageMainService_closed_then_fires(s, ops) ==
    StorageMainService_stored(Storage_close(s), ops)

\* close() (988-995): this._onWillSaveState.fire() runs the listeners,
\* then this.storage.close()
StorageMainService_closed(s, ops) ==
    Storage_close(StorageMainService_stored(s, ops))

\* a doInitialize that migrates whatever it found
doInitialize_migrates_always(useInMemoryStorage, exists) == TRUE

\* doInitialize: whether the global storage is migrated (line 756)
doInitialize_migrates(useInMemoryStorage, exists) ==
    ~ useInMemoryStorage /\ ~ exists

NoMigration == [state |-> "none", afterInit |-> FALSE]

NoSetups == [created |-> 0, inits |-> 0, subscribed |-> 0]

\* the state the constructor leaves (701-709): the storage is in memory
StorageInit ==
    /\ storagePath \in {"memory", "file"}
    /\ fileExists \in BOOLEAN
    /\ initializePromise = "none"
    /\ globalStorageExists = FALSE
    /\ storage = Storage("memory", NoItems)
    /\ migration = NoMigration
    /\ logged = {}
    /\ closeCalled = FALSE
    /\ lastClose = <<>>
    /\ initializeCalls = 0
    /\ doInitializeRuns = 0
    /\ promisesReturned = {}
    /\ storageSetups = NoSetups

\* no storage service is at work
StorageIdle ==
    /\ storagePath = "memory"
    /\ fileExists = FALSE
    /\ initializePromise = "none"
    /\ globalStorageExists = FALSE
    /\ storage = Storage("memory", NoItems)
    /\ migration = NoMigration
    /\ logged = {}
    /\ closeCalled = FALSE
    /\ lastClose = <<>>
    /\ initializeCalls = 0
    /\ doInitializeRuns = 0
    /\ promisesReturned = {}
    /\ storageSetups = NoSetups

\* an initialize() that runs doInitialize() on every call
initialize_runs_always(_initializePromise) == TRUE

\* initialize(): if (!this.initializePromise) (727)
initialize_runs(_initializePromise) == _initializePromise = "none"

\* initialize() (726-732): the first call runs doInitialize up to
\* globalStorageExists.then (734-744) and keeps its promise; every call
\* returns this.initializePromise
StorageMainService_initialize ==
    /\ initializeCalls < MaxInitCalls
    /\ initializeCalls' = initializeCalls + 1
    /\ IF initialize_runs(initializePromise)
       THEN /\ initializePromise' = "exists"
            /\ doInitializeRuns' = doInitializeRuns + 1
       ELSE UNCHANGED <<initializePromise, doInitializeRuns>>
    /\ promisesReturned' = promisesReturned \cup {doInitializeRuns'}
    /\ lastClose' = <<>>
    /\ UNCHANGED <<storagePath, fileExists, globalStorageExists, storage,
                   migration, logged, closeCalled, storageSetups>>
    /\ UNCHANGED <<saveVars, treeVars, outlineVars, slotVars, syncVars,
                   findVars, textVars, webVars>>

\* globalStorageExists resolves: true for the in-memory path (739), else
\* what exists(this.storagePath) finds; the storage of the constructor
\* is disposed and the new one is created (745-752); items is what the
\* database of an existing file holds
doInitialize_exists(items) ==
    /\ initializePromise = "exists"
    /\ initializePromise' = "init"
    /\ globalStorageExists' = (storagePath = "memory" \/ fileExists)
    /\ (storagePath = "memory" \/ ~ fileExists) => items = NoItems
    /\ storage' = Storage("sqlite", items)
    /\ storageSetups' = [created |-> storageSetups.created + 1,
                         inits |-> storageSetups.inits + 1,
                         subscribed |-> storageSetups.subscribed + 1]
    /\ lastClose' = <<>>
    /\ UNCHANGED <<storagePath, fileExists, migration, logged, closeCalled,
                   initializeCalls, doInitializeRuns, promisesReturned>>
    /\ UNCHANGED <<saveVars, treeVars, outlineVars, slotVars, syncVars,
                   findVars, textVars, webVars>>

\* this.storage.init() resolves (752-764): the cache holds the items of
\* the database; the migration begins if it is due, else the promise of
\* initialize() resolves
doInitialize_init ==
    /\ initializePromise = "init"
    /\ storage' = IF storage.state = "closed" THEN storage
                  ELSE [storage EXCEPT !.state = "initialized",
                           !.cache = [k \in StorageKeys |->
                               IF k \in storage.pending THEN @[k]
                               ELSE storage.database[k]]]
    /\ IF doInitialize_migrates(storagePath = "memory", globalStorageExists)
       THEN /\ initializePromise' = "migrating"
            /\ migration' = [state |-> "running",
                             afterInit |-> initializePromise = "init"]
            /\ logged' = logged \cup {"migrating"}
       ELSE /\ initializePromise' = "resolved"
            /\ UNCHANGED <<migration, logged>>
    /\ lastClose' = <<>>
    /\ UNCHANGED <<storagePath, fileExists, globalStorageExists,
                   closeCalled>>
    /\ UNCHANGED <<initializeCalls, doInitializeRuns, promisesReturned,
                   storageSetups>>
    /\ UNCHANGED <<saveVars, treeVars, outlineVars, slotVars, syncVars,
                   findVars, textVars, webVars>>

\* this.storage.init() rejects: so does the promise of initialize()
doInitialize_initFailed ==
    /\ initializePromise = "init"
    /\ initializePromise' = "rejected"
    /\ lastClose' = <<>>
    /\ UNCHANGED <<storagePath, fileExists, globalStorageExists, storage,
                   migration, logged, closeCalled>>
    /\ UNCHANGED <<initializeCalls, doInitializeRuns, promisesReturned,
                   storageSetups>>
    /\ UNCHANGED <<saveVars, treeVars, outlineVars, slotVars, syncVars,
                   findVars, textVars, webVars>>

\* migrateGlobalStorage() resolves (768-960), having stored the keys it
\* found with this.store; 'migrated global storage' is logged (758)
migrateGlobalStorage_resolves(keys) ==
    /\ initializePromise = "migrating"
    /\ initializePromise' = "resolved"
    /\ migration' = [migration EXCEPT !.state = "done"]
    /\ logged' = logged \cup {"migrated"}
    /\ storage' = [storage EXCEPT
                      !.cache = [k \in StorageKeys |->
                          IF k \in keys /\ storage.state # "closed"
                          THEN "v1" ELSE @[k]],
                      !.pending = IF storage.state = "closed" THEN @
                                  ELSE @ \cup keys]
    /\ lastClose' = <<>>
    /\ UNCHANGED <<storagePath, fileExists, globalStorageExists,
                   closeCalled>>
    /\ UNCHANGED <<initializeCalls, doInitializeRuns, promisesReturned,
                   storageSetups>>
    /\ UNCHANGED <<saveVars, treeVars, outlineVars, slotVars, syncVars,
                   findVars, textVars, webVars>>

\* migrateGlobalStorage() rejects: 'migration error' is logged and the
\* promise of initialize() resolves (758)
migrateGlobalStorage_rejects ==
    /\ initializePromise = "migrating"
    /\ initializePromise' = "resolved"
    /\ migration' = [migration EXCEPT !.state = "failed"]
    /\ logged' = logged \cup {"migration error"}
    /\ lastClose' = <<>>
    /\ UNCHANGED <<storagePath, fileExists, globalStorageExists, storage,
                   closeCalled>>
    /\ UNCHANGED <<initializeCalls, doInitializeRuns, promisesReturned,
                   storageSetups>>
    /\ UNCHANGED <<saveVars, treeVars, outlineVars, slotVars, syncVars,
                   findVars, textVars, webVars>>

\* store(key, value) and remove(key) of a client (980-986)
StorageMainService_store(key, value) ==
    /\ storage.cache[key] # value
    /\ storage' = Storage_set(storage, key, value)
    /\ lastClose' = <<>>
    /\ UNCHANGED <<storagePath, fileExists, initializePromise,
                   globalStorageExists, migration, logged, closeCalled>>
    /\ UNCHANGED <<initializeCalls, doInitializeRuns, promisesReturned,
                   storageSetups>>
    /\ UNCHANGED <<saveVars, treeVars, outlineVars, slotVars, syncVars,
                   findVars, textVars, webVars>>

\* the storage flushes what is pending to its database
Storage_flush ==
    /\ storage.pending # {}
    /\ storage.state # "closed"
    /\ storage' = Storage_flushPending(storage)
    /\ lastClose' = <<>>
    /\ UNCHANGED <<storagePath, fileExists, initializePromise,
                   globalStorageExists, migration, logged, closeCalled>>
    /\ UNCHANGED <<initializeCalls, doInitializeRuns, promisesReturned,
                   storageSetups>>
    /\ UNCHANGED <<saveVars, treeVars, outlineVars, slotVars, syncVars,
                   findVars, textVars, webVars>>

\* close() (988-995), called once on shutdown; ops is what the listeners
\* of onWillSaveState do
StorageMainService_close(ops) ==
    /\ ~ closeCalled
    /\ closeCalled' = TRUE
    /\ storage' = StorageMainService_closed(storage, ops)
    /\ lastClose' = <<[fired |-> TRUE, ops |-> ops]>>
    /\ UNCHANGED <<storagePath, fileExists, initializePromise,
                   globalStorageExists, migration, logged>>
    /\ UNCHANGED <<initializeCalls, doInitializeRuns, promisesReturned,
                   storageSetups>>
    /\ UNCHANGED <<saveVars, treeVars, outlineVars, slotVars, syncVars,
                   findVars, textVars, webVars>>

StorageNext ==
    \/ StorageMainService_initialize
    \/ \E items \in [StorageKeys -> StorageValues \cup {"none"}] :
           doInitialize_exists(items)
    \/ doInitialize_init
    \/ doInitialize_initFailed
    \/ \E keys \in SUBSET StorageKeys : migrateGlobalStorage_resolves(keys)
    \/ migrateGlobalStorage_rejects
    \/ \E key \in StorageKeys, value \in StorageValues \cup {"none"} :
           StorageMainService_store(key, value)
    \/ Storage_flush
    \/ \E ops \in ListenerRuns : StorageMainService_close(ops)

(***************************************************************************)
(* FinalNewLineParticipant and TrimFinalNewLinesParticipant on the text of *)
(* the model.  The text model is a collaborator: its lines, the columns    *)
(* of a line, validateRange and the edit operations are those of a text    *)
(* buffer.  A line is a sequence of characters, " " being whitespace.      *)
(***************************************************************************)
LineContents == {<<>>, <<" ">>, <<"a">>}

\* the texts a save can find: at least one line
Texts == UNION { [1..n -> LineContents] : n \in 1..MaxLines }

\* strings.lastNonWhitespaceIndex(line): the 0-based index of the last
\* character that is not whitespace, -1 if there is none
lastNonWhitespaceIndex(line) ==
    LET at == {i \in 1..Len(line) : line[i] # " "} IN
    IF at = {} THEN -1 ELSE (CHOOSE i \in at : \A j \in at : j <= i) - 1

\* model.getLineMaxColumn(lineNumber)
getLineMaxColumn(text, lineNumber) == Len(text[lineNumber]) + 1

\* new Range(...): start and end are put in order
new_Range(startLineNumber, startColumn, endLineNumber, endColumn) ==
    IF \/ startLineNumber > endLineNumber
       \/ startLineNumber = endLineNumber /\ startColumn > endColumn
    THEN [sl |-> endLineNumber, sc |-> endColumn,
          el |-> startLineNumber, ec |-> startColumn]
    ELSE [sl |-> startLineNumber, sc |-> startColumn,
          el |-> endLineNumber, ec |-> endColumn]

\* model.validatePosition: the position moved into the text
validatePosition(text, lineNumber, column) ==
    IF lineNumber < 1 THEN <<1, 1>>
    ELSE IF lineNumber > Len(text)
    THEN <<Len(text), getLineMaxColumn(text, Len(text))>>
    ELSE IF column < 1 THEN <<lineNumber, 1>>
    ELSE IF column > getLineMaxColumn(text, lineNumber)
    THEN <<lineNumber, getLineMaxColumn(text, lineNumber)>>
    ELSE <<lineNumber, column>>

\* model.validateRange(range)
validateRange(text, range) ==
    LET start == validatePosition(text, range.sl, range.sc)
        end == validatePosition(text, range.el, range.ec)
    IN  [sl |-> start[1], sc |-> start[2], el |-> end[1], ec |-> end[2]]

\* Range.isEmpty()
Range_isEmpty(range) == range.sl = range.el /\ range.sc = range.ec

\* EditOperation.delete(range) applied to the text
EditOperation_delete(text, range) ==
    SubSeq(text, 1, range.sl - 1)
    \o << SubSeq(text[range.sl], 1, range.sc - 1)
          \o SubSeq(text[range.el], range.ec, Len(text[range.el])) >>
    \o SubSeq(text, range.el + 1, Len(text))

\* EditOperation.insert(position, model.getEOL()) applied to the text
EditOperation_insertEOL(text, lineNumber, column) ==
    SubSeq(text, 1, lineNumber - 1)
    \o << SubSeq(text[lineNumber], 1, column - 1),
          SubSeq(text[lineNumber], column, Len(text[lineNumber])) >>
    \o SubSeq(text, lineNumber + 1, Len(text))

\* a doInsertFinalNewLine that inserts whatever the last line is
doInsertFinalNewLine_never_returns(text) == FALSE

\* doInsertFinalNewLine (125-132): whether it returns without an edit
doInsertFinalNewLine_returns(text) ==
    LET lineCount == Len(text)
        lastLine == text[lineCount]
        lastLineIsEmptyOrWhitespace == lastNonWhitespaceIndex(lastLine) = -1
    IN  lineCount = 0 \/ lastLineIsEmptyOrWhitespace

\* doInsertFinalNewLine (125-146): the text it leaves
doInsertFinalNewLine(text) ==
    IF doInsertFinalNewLine_returns(text) THEN text
    ELSE EditOperation_insertEOL(text, Len(text),
                                 getLineMaxColumn(text, Len(text)))

\* findLastLineWithContent (160-173), the loop from lineNumber down
RECURSIVE findLastLineWithContent_from(_, _)
findLastLineWithContent_from(text, lineNumber) ==
    IF lineNumber < 1 THEN 0
    ELSE IF lastNonWhitespaceIndex(text[lineNumber]) # -1 THEN lineNumber
    ELSE findLastLineWithContent_from(text, lineNumber - 1)

findLastLineWithContent(text) ==
    findLastLineWithContent_from(text, Len(text))

\* a doTrimFinalNewLines that takes no notice of the cursors
cannotTouchLineNumber_none(isAutoSaved, cursorLines) == 0

\* doTrimFinalNewLines (184-196): the highest cursor line of the editor
\* on an auto save, 0 without editor or on another save
cannotTouchLineNumber(isAutoSaved, cursorLines) ==
    IF cursorLines # {} /\ isAutoSaved
    THEN CHOOSE l \in cursorLines : \A m \in cursorLines : m <= l
    ELSE 0

\* doTrimFinalNewLines (198-200): the range to delete
doTrimFinalNewLines_range(text, isAutoSaved, cursorLines) ==
    LET lineCount == Len(text)
        lastLineNumberWithContent == findLastLineWithContent(text)
        touch == cannotTouchLineNumber(isAutoSaved, cursorLines)
        deleteFromLineNumber ==
            IF lastLineNumberWithContent + 1 >= touch + 1
            THEN lastLineNumberWithContent + 1 ELSE touch + 1
    IN  validateRange(text, new_Range(deleteFromLineNumber, 1, lineCount,
                                      getLineMaxColumn(text, lineCount)))

\* doTrimFinalNewLines (175-211): whether it pushes an edit
doTrimFinalNewLines_pushes(text, isAutoSaved, cursorLines) ==
    /\ Len(text) # 1
    /\ ~ Range_isEmpty(doTrimFinalNewLines_range(text, isAutoSaved,
                                                 cursorLines))

\* doTrimFinalNewLines (175-211): the text it leaves
doTrimFinalNewLines(text, isAutoSaved, cursorLines) ==
    IF doTrimFinalNewLines_pushes(text, isAutoSaved, cursorLines)
    THEN EditOperation_delete(text,
             doTrimFinalNewLines_range(text, isAutoSaved, cursorLines))
    ELSE text

\* editor.setSelections(prevSelection): the cursors stay inside the text
setSelections(cursorLines, text) ==
    { IF l > Len(text) THEN Len(text) ELSE l : l \in cursorLines }

NoPush == [by |-> "none", on |-> FALSE, before |-> <<>>, cursors |-> {},
           pushed |-> FALSE]

NoPushes == [before |-> "none", on |-> <<>>, pushed |-> FALSE]

\* a save of some text begins
TextInit ==
    /\ lines \in Texts
    /\ selections \in SUBSET (1..Len(lines))
    /\ textReason \in SaveReasons
    /\ textPc = "final"
    /\ linesAtSave = lines
    /\ lastPush = NoPush
    /\ pushes = NoPushes

\* no text is being saved
TextIdle ==
    /\ lines = << <<>> >>
    /\ selections = {}
    /\ textReason = "EXPLICIT"
    /\ textPc = "idle"
    /\ linesAtSave = lines
    /\ lastPush = NoPush
    /\ pushes = NoPushes

\* what a participant run adds to the histories
Pushed(by, on) ==
    /\ lastPush' = [by |-> by, on |-> on, before |-> lines,
                    cursors |-> selections, pushed |-> lines' # lines]
    /\ pushes' = [pushes EXCEPT !.on = Append(@, on),
                                !.pushed = @ \/ lines' # lines]

\* FinalNewLineParticipant.participate (116-121), files.insertFinalNewline
\* being on or off
FinalNewLineParticipant_runs(on) ==
    /\ textPc = "final"
    /\ textPc' = "trim"
    /\ lines' = IF on THEN doInsertFinalNewLine(lines) ELSE lines
    /\ selections' = setSelections(selections, lines')
    /\ Pushed("FinalNewLine", on)
    /\ UNCHANGED <<textReason, linesAtSave>>
    /\ UNCHANGED <<saveVars, treeVars, outlineVars, slotVars, syncVars,
                   findVars, storageVars, webVars>>

\* TrimFinalNewLinesParticipant.participate (152-157),
\* files.trimFinalNewlines being on or off
TrimFinalNewLinesParticipant_runs(on) ==
    /\ textPc = "trim"
    /\ textPc' = "done"
    /\ lines' = IF on
                THEN doTrimFinalNewLines(lines, textReason = "AUTO",
                                         selections)
                ELSE lines
    /\ selections' = setSelections(selections, lines')
    /\ Pushed("TrimFinalNewLines", on)
    /\ UNCHANGED <<textReason, linesAtSave>>
    /\ UNCHANGED <<saveVars, treeVars, outlineVars, slotVars, syncVars,
                   findVars, storageVars, webVars>>

\* the next save of the text begins, the cursors being anywhere
Text_saveBegins(saveReason, cursorLines) ==
    /\ textPc = "done"
    /\ cursorLines \subseteq 1..Len(lines)
    /\ textPc' = "final"
    /\ textReason' = saveReason
    /\ selections' = cursorLines
    /\ linesAtSave' = lines
    /\ lastPush' = NoPush
    /\ pushes' = [NoPushes EXCEPT !.before =
                      IF textReason = "EXPLICIT" /\ pushes.on = <<TRUE, TRUE>>
                      THEN "both" ELSE "other"]
    /\ UNCHANGED lines
    /\ UNCHANGED <<saveVars, treeVars, outlineVars, slotVars, syncVars,
                   findVars, storageVars, webVars>>

TextNext ==
    \/ \E on \in BOOLEAN : FinalNewLineParticipant_runs(on)
    \/ \E on \in BOOLEAN : TrimFinalNewLinesParticipant_runs(on)
    \/ \E saveReason \in SaveReasons,
          cursorLines \in SUBSET (1..MaxLines + 1) :
           Text_saveBegins(saveReason, cursorLines)

(***************************************************************************)
(* WebviewElement: _send and the promise this._ready, the content options  *)
(* and the SvgBlocker.  The webview tag, its ipc messages and the web      *)
(* requests of its session are the environment.                            *)
(***************************************************************************)
Channels == {"content", "styles", "baseUrl", "focus", "message",
             "initial-scroll-position"}

Authorities == {"a.com", "B.com"}

\* String.toLowerCase() on an authority
toLowerCase(authority) == IF authority = "B.com" THEN "b.com" ELSE authority

\* WebviewContentOptions, of which svgWhiteList is looked at
NoWhiteList == [defined |-> FALSE, list |-> {}]

WebviewContentOptions ==
    {NoWhiteList, [defined |-> TRUE, list |-> {"a.com"}],
     [defined |-> TRUE, list |-> {"b.com"}]}

WebviewContents == {"", "c1"}

NoWebRequest == [made |-> FALSE, scheme |-> "none", svg |-> FALSE,
                 authority |-> "none", cancelled |-> FALSE,
                 notified |-> FALSE]

\* areWebviewInputOptionsEqual(a, b), the results it may give: it is
\* imported from webviewEditorService (74) and compares fields of the
\* options that are not kept here, so two options with the same white
\* list may differ for it and two with different lists may be equal
areWebviewInputOptionsEqual(a, b) == BOOLEAN

\* the state the constructor leaves (283-404): the promise is pending, the
\* SvgBlocker, if there is one, has the content options of the
\* constructor, and style(theme) has called _send('styles')
WebInit ==
    /\ ready = "pending"
    /\ webDisposed = FALSE
    /\ requested = 1
    /\ sendQueue = << [id |-> 1, channel |-> "styles", early |-> TRUE] >>
    /\ sent = <<>>
    /\ caught = {}
    /\ webContents = ""
    /\ contentOptions \in WebviewContentOptions
    /\ allowSvgs \in BOOLEAN
    /\ blockerOptions = contentOptions
    /\ hooked = FALSE
    /\ lastRequest = NoWebRequest

\* no webview element is at work
WebIdle ==
    /\ ready = "pending"
    /\ webDisposed = TRUE
    /\ requested = 0
    /\ sendQueue = <<>>
    /\ sent = <<>>
    /\ caught = {}
    /\ webContents = ""
    /\ contentOptions = NoWhiteList
    /\ allowSvgs = TRUE
    /\ blockerOptions = NoWhiteList
    /\ hooked = FALSE
    /\ lastRequest = NoWebRequest

\* _send(channel, ...args) (435-439): the callback is put on this._ready
_send(channel) ==
    /\ requested' = requested + 1
    /\ sendQueue' = Append(sendQueue, [id |-> requested + 1, channel |-> channel,
                               early |-> ready = "pending"])

\* a _send whose callback does not wait for this._ready
_send_due_at_once(_ready) == TRUE

\* this._ready.then(...): the callback runs once the promise is resolved
_send_due(_ready) == _ready = "resolved"

\* the ipc-message 'webview-ready' arrives (306-316); the listener is
\* gone once the element is disposed
Webview_ready ==
    /\ ready = "pending"
    /\ ~ webDisposed
    /\ ready' = "resolved"
    /\ lastRequest' = NoWebRequest
    /\ UNCHANGED <<webDisposed, requested, sendQueue, sent, caught, webContents,
                   contentOptions, allowSvgs, blockerOptions, hooked>>
    /\ UNCHANGED <<saveVars, treeVars, outlineVars, slotVars, syncVars,
                   findVars, storageVars, textVars>>

\* the callback of the oldest _send runs (437-438): this._webview.send, or
\* a TypeError on the undefined webview that .catch hands to console.error
Ready_then ==
    /\ sendQueue # <<>>
    /\ _send_due(ready)
    /\ sendQueue' = Tail(sendQueue)
    /\ IF webDisposed
       THEN caught' = caught \cup {Head(sendQueue).id} /\ UNCHANGED sent
       ELSE sent' = Append(sent, Head(sendQueue)) /\ UNCHANGED caught
    /\ lastRequest' = NoWebRequest
    /\ UNCHANGED <<ready, webDisposed, requested, webContents,
                   contentOptions, allowSvgs, blockerOptions, hooked>>
    /\ UNCHANGED <<saveVars, treeVars, outlineVars, slotVars, syncVars,
                   findVars, storageVars, textVars>>

\* initialScrollProgress, baseUrl, focus(), sendMessage(data) and
\* style(theme) (441-443, 484-491, 503-505, 513-534)
WebviewElement_sends(channel) ==
    /\ requested < MaxSends
    /\ channel # "content"
    /\ channel \in {"focus", "styles"} => ~ webDisposed
    /\ _send(channel)
    /\ lastRequest' = NoWebRequest
    /\ UNCHANGED <<ready, webDisposed, sent, caught, webContents,
                   contentOptions, allowSvgs, blockerOptions, hooked>>
    /\ UNCHANGED <<saveVars, treeVars, outlineVars, slotVars, syncVars,
                   findVars, storageVars, textVars>>

\* set contents(value) (462-469)
WebviewElement_contents(value) ==
    /\ requested < MaxSends
    /\ webContents' = value
    /\ _send("content")
    /\ lastRequest' = NoWebRequest
    /\ UNCHANGED <<ready, webDisposed, sent, caught, contentOptions,
                   allowSvgs, blockerOptions, hooked>>
    /\ UNCHANGED <<saveVars, treeVars, outlineVars, slotVars, syncVars,
                   findVars, storageVars, textVars>>

\* set options(value) (449-460): this._contentOptions becomes the new
\* object; the SvgBlocker keeps the one it was constructed with
WebviewElement_options(value) ==
    /\ requested < MaxSends
    /\ FALSE \in areWebviewInputOptionsEqual(value, contentOptions)
    /\ contentOptions' = value
    /\ _send("content")
    /\ lastRequest' = NoWebRequest
    /\ UNCHANGED <<ready, webDisposed, sent, caught, webContents,
                   allowSvgs, blockerOptions, hooked>>
    /\ UNCHANGED <<saveVars, treeVars, outlineVars, slotVars, syncVars,
                   findVars, storageVars, textVars>>

\* update(value, options, retainContextWhenHidden) (471-482)
WebviewElement_update(value, options, retainContextWhenHidden) ==
    /\ requested < MaxSends
    /\ \E equal \in areWebviewInputOptionsEqual(options, contentOptions) :
           ~ (retainContextWhenHidden /\ value = webContents /\ equal)
    /\ webContents' = value
    /\ contentOptions' = options
    /\ _send("content")
    /\ lastRequest' = NoWebRequest
    /\ UNCHANGED <<ready, webDisposed, sent, caught, allowSvgs,
                   blockerOptions, hooked>>
    /\ UNCHANGED <<saveVars, treeVars, outlineVars, slotVars, syncVars,
                   findVars, storageVars, textVars>>

\* dispose() (411-421)
WebviewElement_dispose ==
    /\ ~ webDisposed
    /\ webDisposed' = TRUE
    /\ lastRequest' = NoWebRequest
    /\ UNCHANGED <<ready, requested, sendQueue, sent, caught, webContents,
                   contentOptions, allowSvgs, blockerOptions, hooked>>
    /\ UNCHANGED <<saveVars, treeVars, outlineVars, slotVars, syncVars,
                   findVars, storageVars, textVars>>

\* 'did-start-loading' for the first time (157-166): the SvgBlocker, if
\* there is one, takes the requests of the session
Webview_didStartLoading ==
    /\ ~ webDisposed
    /\ ~ allowSvgs
    /\ ~ hooked
    /\ hooked' = TRUE
    /\ lastRequest' = NoWebRequest
    /\ UNCHANGED <<ready, webDisposed, requested, sendQueue, sent, caught,
                   webContents, contentOptions, allowSvgs, blockerOptions>>
    /\ UNCHANGED <<saveVars, treeVars, outlineVars, slotVars, syncVars,
                   findVars, storageVars, textVars>>

\* SvgBlocker.isAllowedSvg(uri) (192-197)
SvgBlocker_isAllowedSvg(_options, authority) ==
    IF _options.defined THEN toLowerCase(authority) \in _options.list
    ELSE FALSE

\* onBeforeRequest (168-175): whether the request is cancelled; svg says
\* that the path of the url ends with .svg
SvgBlocker_cancels(_options, scheme, svg, authority) ==
    svg /\ scheme # "file" /\ ~ SvgBlocker_isAllowedSvg(_options, authority)

\* the session asks before a request (168-175); a cancelled request
\* fires onDidBlockSvg, which sends 'vscode-did-block-svg' (507-511)
WebRequest_onBeforeRequest(scheme, svg, authority) ==
    /\ hooked
    /\ ~ webDisposed
    /\ requested < MaxSends
    /\ LET cancel == SvgBlocker_cancels(blockerOptions, scheme, svg,
                                        authority)
       IN  /\ lastRequest' = [made |-> TRUE, scheme |-> scheme, svg |-> svg,
                              authority |-> authority, cancelled |-> cancel,
                              notified |-> cancel]
           /\ IF cancel THEN _send("message")
              ELSE UNCHANGED <<requested, sendQueue>>
    /\ UNCHANGED <<ready, webDisposed, sent, caught, webContents,
                   contentOptions, allowSvgs, blockerOptions, hooked>>
    /\ UNCHANGED <<saveVars, treeVars, outlineVars, slotVars, syncVars,
                   findVars, storageVars, textVars>>

WebNext ==
    \/ Webview_ready
    \/ Ready_then
    \/ \E channel \in Channels : WebviewElement_sends(channel)
    \/ \E value \in WebviewContents : WebviewElement_contents(value)
    \/ \E value \in WebviewContentOptions : WebviewElement_options(value)
    \/ \E value \in WebviewContents, options \in WebviewContentOptions,
          retainContextWhenHidden \in BOOLEAN :
           WebviewElement_update(value, options, retainContextWhenHidden)
    \/ WebviewElement_dispose
    \/ Webview_didStartLoading
    \/ \E scheme \in {"file", "https"}, svg \in BOOLEAN,
          authority \in Authorities :
           WebRequest_onBeforeRequest(scheme, svg, authority)

\* the components modelled on their own are not at work
ServiceIdle ==
    SlotIdle /\ SyncIdle /\ FindIdle /\ StorageIdle /\ TextIdle /\ WebIdle

TreeSpecInit == SaveInit /\ TreeInit /\ OracleIdle /\ PanelIdle /\ ServiceIdle

TreeSpec == TreeSpecInit /\ [][TreeNext]_vars

SaveSpecInit == SaveInit /\ TreeIdle /\ OracleIdle /\ PanelIdle /\ ServiceIdle

SaveSpec == SaveSpecInit /\ [][SaveNext]_vars

\* the event loop runs every due timer callback and every promise
\* continuation; requests to collaborators may stay unanswered for ever
SaveFairness ==
    /\ WF_vars(SaveParticipant_then)
    /\ WF_vars(TrimWhitespaceParticipant_participate)
    /\ WF_vars(CodeActionOnSaveParticipant_participate)
    /\ WF_vars(FormatOnSaveParticipant_participate)
    /\ WF_vars(FinalNewLineParticipant_participate)
    /\ WF_vars(TrimFinalNewLinesParticipant_participate)
    /\ WF_vars(ExtHostSaveParticipant_participate)
    /\ WF_vars(CodeActionOnSave_timeout)
    /\ WF_vars(FormatOnSave_timeout)
    /\ WF_vars(ExtHost_timeout)

OracleSpecInit ==
    SaveInit /\ TreeIdle /\ OracleInit /\ PanelIdle /\ ServiceIdle

PanelSpecInit ==
    SaveInit /\ TreeIdle /\ OracleIdle /\ PanelInit /\ ServiceIdle

PanelSpec == PanelSpecInit /\ [][PanelNext]_vars

OracleSpec == OracleSpecInit /\ [][OracleNext]_vars

SaveFairSpec == SaveSpecInit /\ [][SaveNext]_vars /\ SaveFairness

OutlineSpecInit ==
    SaveInit /\ TreeIdle /\ OutlineInit /\ ServiceIdle

OutlineSpec == OutlineSpecInit /\ [][OutlineNext]_vars

SlotSpecInit ==
    /\ SaveInit /\ TreeIdle /\ OracleIdle /\ PanelIdle
    /\ SlotInit /\ SyncIdle /\ FindIdle /\ StorageIdle /\ TextIdle
    /\ WebIdle

SlotSpec == SlotSpecInit /\ [][SlotNext]_vars

SyncSpecInit ==
    /\ SaveInit /\ TreeIdle /\ OracleIdle /\ PanelIdle
    /\ SlotIdle /\ SyncInit /\ FindIdle /\ StorageIdle /\ TextIdle
    /\ WebIdle

SyncSpec == SyncSpecInit /\ [][SyncNext]_vars

FindSpecInit ==
    /\ SaveInit /\ TreeIdle /\ OracleIdle /\ PanelIdle
    /\ SlotIdle /\ SyncIdle /\ FindInit /\ StorageIdle /\ TextIdle
    /\ WebIdle

FindSpec == FindSpecInit /\ [][FindNext]_vars

StorageSpecInit ==
    /\ SaveInit /\ TreeIdle /\ OracleIdle /\ PanelIdle
    /\ SlotIdle /\ SyncIdle /\ FindIdle /\ StorageInit /\ TextIdle
    /\ WebIdle

StorageSpec == StorageSpecInit /\ [][StorageNext]_vars

TextSpecInit ==
    /\ SaveInit /\ TreeIdle /\ OracleIdle /\ PanelIdle
    /\ SlotIdle /\ SyncIdle /\ FindIdle /\ StorageIdle /\ TextInit
    /\ WebIdle

TextSpec == TextSpecInit /\ [][TextNext]_vars

WebSpecInit ==
    /\ SaveInit /\ TreeIdle /\ OracleIdle /\ PanelIdle
    /\ SlotIdle /\ SyncIdle /\ FindIdle /\ StorageIdle /\ TextIdle
    /\ WebInit

WebSpec == WebSpecInit /\ [][WebNext]_vars

(***************************************************************************)
(* Properties of the save participant chain                                *)
(***************************************************************************)

InvokedSet == { invoked[i] : i \in 1..Len(invoked) }

\* C1: the participants run in the declared order TrimWhitespace,
\* CodeActionOnSave, FormatOnSave, FinalNewLine, TrimFinalNewLines, ExtHost, and
\* a participant is invoked only after every earlier one has settled, so at
\* most one participant's promise is pending at any time
C1_SequentialInOrder ==
    LET declared == << "TrimWhitespace", "CodeActionOnSave", "FormatOnSave",
                       "FinalNewLine", "TrimFinalNewLines", "ExtHost" >>
    IN  /\ Len(invoked) <= Len(declared)
        /\ invoked = SubSeq(declared, 1, Len(invoked))
        /\ \A i \in 1..Len(invoked) : \A j \in 1..Len(invoked) :
             i < j => promise[invoked[i]] \in {"resolved", "rejected"}
        /\ Cardinality({ p \in ParticipantNames : promise[p] = "pending" }) <= 1

\* C1 witness: all six ran, the code-action and format steps asynchronously
C1_Witness ==
    /\ Len(invoked) = 6
    /\ ca.pc = "resolved"
    /\ fmt.request = "done"
    /\ promise["ExtHost"] = "pending"

\* C2 (as claimed): a save in which the format step timed out still invokes
\* FinalNewLine before the save ends
C2_FinalNewLineAfterFormatTimeout ==
    (result = "resolved" /\ fmt.timedOut) => "FinalNewLine" \in InvokedSet

\* C3: the promise of SaveParticipant.participate never rejects; a rejected
\* participant is logged with exactly one warning and the promise resolves
C3_NeverRejects ==
    /\ result # "rejected"
    /\ result \in {"none", "pending"} => warnCount = 0
    /\ result = "resolved" =>
         warnCount = IF \E p \in ParticipantNames : promise[p] = "rejected"
                     THEN 1 ELSE 0

\* C3 witness: a save that ended after a participant rejected
C3_Witness ==
    /\ result = "resolved"
    /\ warnCount = 1
    /\ \E p \in ParticipantNames : promise[p] = "rejected"

\* C4: under fair timers every started save settles, whether or not the
\* formatting, code-action and extension-host requests are ever answered
C4_SaveCompletes == (result = "pending") ~> (result = "resolved")

\* C4 witness: the save ended although the extension host never answered
C4_Witness ==
    /\ result = "resolved"
    /\ eh.request = "pending"
    /\ promise["ExtHost"] = "rejected"

\* C5: once the format timer fired with the request outstanding, the token is
\* cancelled, the step is rejected and no formatting edit is ever applied
C5_FormatTimeoutDiscards ==
    fmt.timedOut =>
        /\ fmt.cancelled
        /\ promise["FormatOnSave"] = "rejected"
        /\ "FormatOnSave" \notin edited

\* C5 witness: non-empty formatting edits arrived after the timeout
C5_Witness == fmt.timedOut /\ fmt.lateEdits

\* C6 (as claimed): after the code-action timeout no applyCodeAction call is
\* started and no code-action edit is applied
C6_NoSideEffectAfterTimeout == ~ ca.lateApply /\ ~ ca.lateEdit

\* a participant that found its gate closed: setting off, or an AUTO save for
\* the two participants that skip AUTO saves
GateClosed(p) ==
    \/ enabled[p] = "off"
    \/ p \in {"FormatOnSave", "CodeActionOnSave"} /\ p \in InvokedSet /\ reason = "AUTO"

\* C7: a participant whose gate is closed pushes no edit, starts no request
\* and no timer, and resolves
C7_GateClosedIsNoop ==
    \A p \in {"TrimWhitespace", "FinalNewLine", "TrimFinalNewLines",
              "FormatOnSave", "CodeActionOnSave"} :
        GateClosed(p) =>
            /\ p \notin edited
            /\ promise[p] = "resolved"
            /\ p = "FormatOnSave" => fmt.timer = "none" /\ fmt.request = "none"
            /\ p = "CodeActionOnSave" => ca.timer = "none" /\ ca.pc = "none"

\* C7 witness: an AUTO save passed the format step with formatOnSave on, and
\* the final-newline step with its setting off
C7_Witness ==
    /\ reason = "AUTO"
    /\ enabled["FormatOnSave"] = "on"
    /\ enabled["CodeActionOnSave"] = "on"
    /\ enabled["FinalNewLine"] = "off"

(***************************************************************************)
(* Properties of the DataTree                                              *)
(***************************************************************************)

\* C8: without identity provider getViewState() throws and setInput with a
\* view state throws, leaving input and model as they were; setInput without
\* view state succeeds and installs the input
C8_NoIdentityProviderFails ==
    [][ ~ identityProvider =>
          /\ DataTree_getViewState => thrown' = "getViewState"
          /\ \A in \in Inputs, viewState \in ViewStates :
               DataTree_setInputWithViewState(in, viewState) =>
                   thrown' = "setInput" /\ input' = input /\ model' = model
          /\ \A in \in Inputs :
               DataTree_setInput(in) =>
                   thrown' = "none" /\ input' = in
      ]_vars

\* C8 witness: setInput with a view state failed on a tree without identity
\* provider, before an input was ever set
C8_Witness ==
    /\ ~ identityProvider
    /\ thrown = "setInput"
    /\ input = "undefined"
    /\ Reported(dataSource) # {}

\* C9: updateChildren for an element whose reported subtree is what the model
\* already holds leaves the set of nodes and every node's collapsed state as
\* they were
C9_UpdateChildrenKeepsCollapseState ==
    [][ (called' = "updateChildren" /\ unchanged' /\ changes' = changes) =>
          /\ DOMAIN model' = DOMAIN model
          /\ \A q \in DOMAIN model : model'[q].collapsed = model[q].collapsed
      ]_vars

\* C9 witness: updateChildren ran with unchanged children on a tree that has
\* a collapsed node
C9_Witness ==
    /\ called = "updateChildren"
    /\ unchanged
    /\ \E q \in DOMAIN model : model[q].collapsed /\ model[q].children # <<>>

\* the element the last updateChildren was called for
RefreshedElement == IF refreshed = <<>> THEN input ELSE Last(refreshed)

C11_SetInputRestoresViewState ==
    (called = "setInput+viewState" /\ thrown = "none") =>
        /\ identityProvider
        /\ \A q \in DOMAIN model \ {<<>>} :
             model[q].children # <<>> =>
                 (model[q].collapsed <=> getId(Last(q)) \notin given.expanded)
        /\ \A c \in Flat(iterate(input, setInput_isCollapsed(given)), <<>>) :
             c[2].children = <<>> => c[2].collapsed = "undefined"
        /\ focus = { e \in ElementsOf(model) : getId(e) \in given.focus }
        /\ selection = { e \in ElementsOf(model) : getId(e) \in given.selection }

\* C11 witness: a restored tree with a collapsed parent and a childless node,
\* the focus restored and the selected id, which has no element, dropped
C11_Witness ==
    /\ called = "setInput+viewState"
    /\ thrown = "none"
    /\ \E q \in DOMAIN model \ {<<>>} : model[q].children # <<>> /\ model[q].collapsed
    /\ \E q \in DOMAIN model \ {<<>>} : model[q].children = <<>>
    /\ focus = {"a"}
    /\ given.selection # {}
    /\ selection = {}

\* the nodes getViewState lists: not the root, collapsible and not collapsed
ExpandedNodes ==
    { q \in DOMAIN model \ {<<>>} : model[q].collapsible /\ ~ model[q].collapsed }

\* the position of location q among the children of its parent
SiblingIndex(q) ==
    LET parent == SubSeq(q, 1, Len(q) - 1)
    IN  CHOOSE i \in DOMAIN model[parent].children : model[parent].children[i] = Last(q)

\* breadth-first order of two locations: the shallower first, and at one depth
\* the one whose branch comes first where the two paths part
BreadthFirstBefore(p, q) ==
    \/ Len(p) < Len(q)
    \/ /\ Len(p) = Len(q)
       /\ \E i \in 1..Len(p) :
            /\ SubSeq(p, 1, i - 1) = SubSeq(q, 1, i - 1)
            /\ p[i] # q[i]
            /\ SiblingIndex(SubSeq(p, 1, i)) < SiblingIndex(SubSeq(q, 1, i))

\* C12: getViewState returns the ids of the focused and the selected elements,
\* and as expanded the ids of exactly the non-root nodes that are collapsible
\* and not collapsed, in breadth-first order, whatever their ancestors' state
C12_ViewStateListsExpandedNodes ==
    (called = "getViewState" /\ thrown = "none") =>
        /\ returned.focus = { getId(e) : e \in focus }
        /\ returned.selection = { getId(e) : e \in selection }
        /\ Len(returned.expanded) = Cardinality(ExpandedNodes)
        /\ \A q \in ExpandedNodes :
             returned.expanded[
                 1 + Cardinality({ p \in ExpandedNodes : BreadthFirstBefore(p, q) })]
               = getId(Last(q))

\* C12 witness: a view state that lists an expanded node below a collapsed one,
\* with a focused element
C12_Witness ==
    /\ called = "getViewState"
    /\ thrown = "none"
    /\ returned.focus # {}
    /\ \E q \in ExpandedNodes :
         /\ Len(q) = 2
         /\ model[SubSeq(q, 1, 1)].collapsed
         /\ \E i \in DOMAIN returned.expanded : returned.expanded[i] = getId(Last(q))

(***************************************************************************)
(* Properties of the request oracle.                                       *)
(***************************************************************************)
\* a step in which the oracle evaluates the request state: one of its two
\* subscriptions runs _update()
OracleEvaluates ==
    /\ ~ oracleDisposed
    /\ \/ \E w \in {"none"} \cup Editors :
              EditorService_onDidActiveEditorChange(w)
       \/ \E m \in TextModels, n \in 0..MaxProviders :
              FeatureRegistry_onDidChange(m, n)

\* C19: on an active-editor or provider-registry change the oracle calls
\* its callback only when the request state it evaluates differs from the
\* one of the previous evaluation; when the two are the same there is no
\* callback and the session's listeners and timer stay as they are.
C19_CallbackOnlyWhenStateDiffers ==
    [][ (OracleEvaluates /\ lastState' = lastState)
            => UNCHANGED <<calls, lastCall, session, handle>> ]_vars

\* the state of the debounce: no event is delivered twice, a running timer
\* is the one of the last content change and fires DebounceMs after it, an
\* event whose timer is running or was cleared with the session is
\* undelivered, and the last content change is delivered once its timer is
\* no longer running
Debounced ==
    /\ \A k \in 1..MaxEvents : delivered[k] <= 1
    /\ handle.armed =>
           /\ handle.event = lastEvent
           /\ handle.remaining + sinceEvent = DebounceMs
           /\ delivered[handle.event] = 0
    /\ \A k \in cancelled : delivered[k] = 0
    /\ (lastEvent # 0 /\ ~ handle.armed /\ lastEvent \notin cancelled)
           => delivered[lastEvent] = 1

\* C20: content changes less than 350 ms apart lead to one call of the
\* callback, 350 ms after the last of them and carrying it: no call carries
\* an earlier event of the burst or comes sooner, and there is no call at
\* all once the session was replaced or the oracle disposed.
C20_ContentChangesAreDebounced ==
    /\ []Debounced
    /\ [][ (calls' # calls /\ lastCall'.event # 0) =>
               /\ sinceEvent = DebounceMs
               /\ handle.armed
               /\ lastCall' = [editor |-> session.editor, event |-> lastEvent]
               /\ session.alive /\ ~ oracleDisposed ]_vars

\* the two content changes of a burst were heard and the callback ran once,
\* for the second
C20_Witness ==
    /\ session = [editor |-> "e1", alive |-> TRUE]
    /\ versionIds["m1"] = 3
    /\ delivered[1] = 0 /\ delivered[2] = 1
    /\ lastCall = [editor |-> "e1", event |-> 2]
    /\ sinceEvent = DebounceMs

(***************************************************************************)
(* Properties of the outline panel.                                        *)
(***************************************************************************)
\* C13: _doUpdate enters the wait of a drastic change only for an update
\* that carries a content-change event, found an old model as the tree's
\* input and is for a document of at least 25 lines; an update without an
\* event or without an old model, such as the first load, never waits.
C13_WaitOnlyForEditsOfLongDocuments ==
    /\ lastStep.waited =>
           /\ lastStep.changes # NoEvent
           /\ lastStep.hadOld
           /\ lastStep.lineCount >= DrasticMinLines
    /\ lastStep.at = "check" =>
           (lastStep.waited <=> updates[lastStep.update].pc = "waiting")
    /\ \A i \in 1..MaxUpdates :
           updates[i].pc = "waiting" => updates[i].oldModel # NoModel

\* an update went to wait for a document of just 25 lines
C13_Witness ==
    /\ lastStep.waited
    /\ lastStep.lineCount = DrasticMinLines
    /\ updates[lastStep.update].pc = "waiting"

RECURSIVE SumTextLength(_)
\* the length of the text the changes of an event put into the document
SumTextLength(changes_) ==
    IF changes_ = <<>> THEN 0
    ELSE changes_[1].textLength + SumTextLength(Tail(changes_))

\* the length of the document before the edit of an event: what the edit
\* put in is taken off its length now, what the edit took out is put back
LengthBeforeEdit(newLength, changes_) ==
    newLength - SumTextLength(changes_) + SumRangeLength(changes_)

\* an update that reached the ratio check in the last step, coming from an
\* edit, with an old model and a document of at least 25 lines
RatioChecked ==
    /\ lastStep.at = "check"
    /\ lastStep.changes # NoEvent
    /\ lastStep.hadOld
    /\ lastStep.lineCount >= DrasticMinLines

\* whether the new ratio of symbols to characters is at most half or at
\* least one and a half times the old one, the old one being taken over
\* the length of the document before the edit
DrasticChange ==
    _doUpdate_drastic(lastStep.newSize, lastStep.newLength, lastStep.oldSize,
                      LengthBeforeEdit(lastStep.newLength, lastStep.changes))

\* C14: an update from an edit of a document of at least 25 lines goes to
\* wait exactly when the new ratio is at most 0.5 times or at least 1.5
\* times the old ratio, the old ratio being the old symbol count over the
\* length of the document before the edit, whatever the edit inserted,
\* deleted or replaced.
C14_WaitsExactlyOnDrasticRatio ==
    RatioChecked => (lastStep.waited <=> DrasticChange)

\* the new ratio lies strictly between 0.5 times and 1.5 times the old one
StableRatio == ~ DrasticChange

\* C15: an update from an edit whose new ratio lies strictly between 0.5
\* times and 1.5 times the old one, and whose new model can be merged into
\* the old one, does not wait and takes the merge path: setInput is not
\* called, the tree's input stays the old model object, updateChildren is
\* called and the tree keeps its expansion state.
C15_StableRatioMergesInPlace ==
    [][ (RatioChecked' /\ StableRatio' /\ lastStep'.mergeable) =>
            /\ ~ lastStep'.waited
            /\ lastStep'.applied = "merge"
            /\ treeInput' = updates[lastStep'.update].oldModel
            /\ viewToken' = viewToken ]_vars

\* C16: an update that was in its wait when a newer update began never
\* applies: it does not merge, call setInput or updateChildren, or register
\* listeners.
C16_SupersededWaitNeverApplies ==
    lastStep.superseded = "waiting" =>
        lastStep.applied = "no" /\ ~ lastStep.registered

\* C17: an update that awaited its outline model when a newer update began
\* is cancelled: it has returned, and no step of it gives the tree an input
\* or new children, shows a message or registers listeners, whenever its
\* computation ends.
C17_SupersededBuildIsCancelled ==
    /\ \A i \in 1..MaxUpdates :
           updates[i].superseded = "creating" => updates[i].pc = "cancelled"
    /\ lastStep.superseded = "creating" =>
           /\ lastStep.applied = "no"
           /\ lastStep.showed = "none"
           /\ ~ lastStep.registered

\* the first update was cancelled by the second, which went on to give the
\* tree its model
C17_Witness ==
    /\ updates[1].pc = "cancelled"
    /\ updates[1].superseded = "creating"
    /\ lastStep.update = 2
    /\ lastStep.applied = "replace"
    /\ treeInput.obj = 2
    /\ listeners = {2}

\* the n most recently used of the keys
MostRecentlyUsed(keys, n) ==
    { keys[i] : i \in { j \in 1..Len(keys) : j > Len(keys) - n } }

\* the cache holds at most 10 entries, those of the 10 most recently used
\* keys, the least recently used first
CacheIsLRU ==
    /\ Len(treeStates) <= TreeStatesLimit
    /\ LRUCache_keys(treeStates) = MostRecentlyUsed(used, TreeStatesLimit)
    /\ \A i \in 1..Len(treeStates) :
           treeStates[i].key = used[Len(used) - Len(treeStates) + i]

\* C18: when an update begins and the tree has an old model, the view state
\* of the tree is stored under the URI of the old model; an update that
\* replaces the input gives setInput the view state cached for the URI of
\* the new document if that URI is among the 10 most recently used, and
\* none otherwise; the cache never holds more than 10 entries and drops
\* the least recently used first.
C18_ViewStatesAreCachedPerDocument ==
    /\ []CacheIsLRU
    /\ [][ lastStep'.at = "begin" =>
               IF treeInput = NoModel
               THEN treeStates' = treeStates /\ lastStep'.stored = "none"
               ELSE /\ lastStep'.stored = treeInput.uri
                    /\ LRUCache_get(treeStates', treeInput.uri) = viewToken
                    /\ treeStates'[Len(treeStates')].key = treeInput.uri ]_vars
    /\ [][ lastStep'.applied = "replace" =>
               /\ lastStep'.restored =
                      IF treeInput'.uri \in MostRecentlyUsed(used, TreeStatesLimit)
                      THEN LRUCache_get(treeStates, treeInput'.uri)
                      ELSE "none"
               /\ viewToken' = IF lastStep'.restored = "none" THEN "fresh"
                               ELSE lastStep'.restored ]_vars

\* the eleventh document pushed the first out of the cache, and the first,
\* shown again, got no view state
C18_Witness ==
    /\ Len(used) = TreeStatesLimit + 1
    /\ Len(treeStates) = TreeStatesLimit
    /\ "u1" \notin LRUCache_keys(treeStates)
    /\ lastStep.applied = "replace"
    /\ lastStep.restored = "none"
    /\ treeInput.uri = "u1"
\* C25: a code action that fails to apply blocks no other one: while
\* actions of the kind at hand remain to be applied, the loop goes on
\* with the next action of that kind whether applyCodeAction resolved or
\* rejected, and later kinds follow.
C25_FailedActionBlocksNoOther ==
    [][(ca.pc = "apply" /\ ca.todo > 0 /\
        (ca'.pc # ca.pc \/ ca'.todo # ca.todo \/ ca'.kind # ca.kind))
           => /\ ca'.pc = "apply"
              /\ ca'.kind = ca.kind
              /\ ca'.todo = ca.todo - 1]_vars

(***************************************************************************)
(* Properties of the save participant slot                                 *)
(***************************************************************************)
\* C26: the slot holds null or a live instance, and no step takes the
\* registration away from an instance that is still live after the step
\* unless another instance is registered in its place: disposing one
\* instance leaves the registration of a different live one alone.
C26_SlotHoldsTheLiveRegistrant ==
    /\ [](saveParticipant # 0 => instances[saveParticipant] = "live")
    /\ [][\A i \in Instances :
              saveParticipant = i /\ instances'[i] = "live"
                  => saveParticipant' # 0]_vars

(***************************************************************************)
(* Properties of the panel with its oracle                                 *)
(***************************************************************************)
\* C21: when the editor whose events the oracle's session listens to is
\* disposed, the oracle calls back with no editor and no event, and in
\* the same step the tree loses its input and the panel shows the
\* no-editor message, whatever the panel was doing: creating an outline
\* model with or without its loading timer, waiting out a drastic
\* change, or showing an outline.
C21_DisposedEditorRevertsToNoEditor ==
    [][\A e \in Editors :
          Listening(e) /\ e \notin disposedEditors /\ e \in disposedEditors'
              => /\ calls' = calls + 1
                 /\ lastCall' = [editor |-> "none", event |-> 0]
                 /\ treeInput' = NoModel
                 /\ message' = "no-editor"]_vars

\* the editor listened to was disposed while an update was waiting out a
\* drastic change, and the panel shows the no-editor message
C21_Witness ==
    /\ session.alive
    /\ session.editor \in disposedEditors
    /\ lastState # NoState
    /\ lastCall = [editor |-> "none", event |-> 0]
    /\ lastStep.at = "begin"
    /\ lastStep.showed = "no-editor"
    /\ \E i \in 1..MaxUpdates : updates[i].pc = "waiting"
    /\ treeInput = NoModel
    /\ message = "no-editor"

\* C24: once OutlinePanel.dispose() has returned, the oracle is disposed,
\* its session's listeners are gone and its timer is cleared, no update
\* awaits an outline model or waits out a drastic change, no listener of
\* an update is registered, and from then on no step calls the callback
\* or changes the tree's input, its view state, the message or the
\* listeners, whatever happens to the editors.
C24_NothingStaleAfterDispose ==
    /\ [](panelDisposed =>
             /\ oracleDisposed
             /\ ~ session.alive
             /\ ~ handle.armed
             /\ \A i \in 1..MaxUpdates : ~ InFlight(updates[i])
             /\ listeners = {})
    /\ [][panelDisposed =>
             /\ calls' = calls
             /\ UNCHANGED <<treeInput, viewToken, treeStates, message,
                            listeners, updates, lastStep>>]_vars

\* the panel was disposed while the timer of a content change was set
\* and an outline model was being created, and the text of an editor
\* changed afterwards
C24_Witness ==
    /\ panelDisposed
    /\ cancelled # {}
    /\ \E i \in 1..MaxUpdates : updates[i].pc = "cancelled"
    /\ \E k \in 1..MaxEvents : k \notin cancelled /\ k > lastEvent
    /\ \E m \in TextModels : versionIds[m] > 2

(***************************************************************************)
(* Properties of the cursor and selection sync                             *)
(***************************************************************************)
\* C22: a selection change of the tree that _revealEditorSelection
\* brought about, which carries the synthetic follow-cursor event, never
\* calls openEditor; openEditor is called for exactly the selection
\* changes of another origin that reach the listener with an
\* OutlineElement as first element.
C22_FollowCursorNeverFeedsBack ==
    /\ lastSync.browserEvent = "fake" => ~ lastSync.opened
    /\ lastSync.op \in {"cursor", "subscribe"} => ~ lastSync.opened
    /\ lastSync.opened <=>
           /\ lastSync.op = "select"
           /\ subscribed
           /\ lastSync.browserEvent # "fake"
           /\ lastSync.first \in OutlineElements

\* a cursor move made the tree select the symbol around the cursor, and
\* the selection listener heard the change
C22_Witness ==
    /\ lastSync.op = "cursor"
    /\ lastSync.followed
    /\ lastSync.browserEvent = "fake"
    /\ subscribed
    /\ treeSelected = lastSync.first
    /\ treeSelected \in OutlineElements

\* C23: a cursor move changes the focus or the selection of the tree
\* only if follow-cursor is on, the tree has an input, the text model is
\* not disposed and has the version id it had when the cursor listener
\* was registered; once the version differs, cursor moves leave focus
\* and selection alone until an update registers the listener anew.
C23_CursorFollowedOnlyAtSubscribedVersion ==
    [][lastSync'.op = "cursor"
       /\ (treeFocused' # treeFocused \/ treeSelected' # treeSelected)
           => /\ followCursor
              /\ outlineShown
              /\ subscribed
              /\ ~ textDisposed
              /\ textVersion = versionIdThen]_vars

\* after the text changed and a later update registered the listener
\* anew, a cursor move made the tree follow
C23_Witness ==
    /\ lastSync.op = "cursor"
    /\ lastSync.followed
    /\ versionIdThen > 1
    /\ textVersion = versionIdThen
    /\ treeSelected = getItemEnclosingPosition(cursor)

(***************************************************************************)
(* Properties of find in a webview                                         *)
(***************************************************************************)
\* C27: the first findInPage request the webview gets after it was
\* constructed or after stopFind() has findNext = false; while a search
\* is started, find() passes the value and the options of its caller on
\* unchanged; find() and startFind() with an empty value issue no
\* request and leave _findStarted as it was.
C27_FirstRequestNeverFindsNext ==
    /\ findStarted <=> sinceStop > 0
    /\ lastFind.request.issued /\ lastFind.first
           => lastFind.request.options.findNext = "false"
    /\ lastFind.op = "find" /\ lastFind.request.issued /\ ~ lastFind.first
           => /\ lastFind.request.value = lastFind.value
              /\ lastFind.request.options = lastFind.options
    /\ lastFind.op \in {"find", "startFind"} /\ lastFind.value = ""
           => /\ ~ lastFind.request.issued
              /\ findStarted = lastFind.startedBefore

\* the first find() of a search was called with findNext set to true
\* and the webview got the request with findNext = false
C27_Witness ==
    /\ lastFind.op = "find"
    /\ lastFind.first
    /\ ~ lastFind.startedBefore
    /\ lastFind.options.findNext = "true"
    /\ lastFind.request.issued
    /\ lastFind.request.options.findNext = "false"
    /\ sinceStop = 1


\* C28: the global storage is migrated if and only if the storage file did
\* not exist before initialization and the storage path is not the
\* in-memory path; the migration starts only when init() of the new
\* storage has completed; a migration that fails is logged and the promise
\* of initialize() resolves, and that promise never rejects once a
\* migration has started
C28_MigrationOnlyOnFirstRealStart ==
    /\ initializePromise \in {"migrating", "resolved"}
          => (migration.state # "none"
                 <=> (storagePath = "file" /\ ~ fileExists))
    /\ migration.state # "none"
          => /\ migration.afterInit
             /\ storage.kind = "sqlite"
             /\ initializePromise \in {"migrating", "resolved"}
    /\ migration.state = "failed"
          => /\ "migration error" \in logged
             /\ initializePromise = "resolved"
    /\ initializePromise = "rejected" => migration.state = "none"

\* a migration failed on a first start with a storage file, and
\* initialize() resolved
C28_Witness ==
    /\ migration.state = "failed"
    /\ storagePath = "file" /\ ~ fileExists
    /\ initializePromise = "resolved"

\* C29: after close(), the storage is closed with nothing pending, and
\* for every key a listener of onWillSaveState stored or removed while
\* close() fired the event, the database holds what the last of these
\* calls left
C29_ListenerStoresArePersisted ==
    lastClose # <<>> =>
        LET ops == lastClose[1].ops IN
        /\ storage.state = "closed"
        /\ storage.pending = {}
        /\ \A k \in StorageKeys :
              LET on == {i \in 1..Len(ops) : ops[i].key = k} IN
              on # {} =>
                  storage.database[k] =
                      ops[CHOOSE i \in on : \A j \in on : j <= i].value

\* close() ran on the initialized storage and a listener stored an item
\* that the database did not hold before
C29_Witness ==
    /\ lastClose # <<>>
    /\ storage.kind = "sqlite"
    /\ initializePromise = "resolved"
    /\ \E i \in 1..Len(lastClose[1].ops) :
          /\ lastClose[1].ops[i].value = "v1"
          /\ storage.database[lastClose[1].ops[i].key] = "v1"
    /\ \E i \in 1..Len(lastClose[1].ops) :
          lastClose[1].ops[i].value = "none"


\* C30: no listener and no update of the panel calls updateChildren() of
\* the tree while the tree has no input: no step ends with DataTree
\* throwing 'Tree input not set'
C30_NoRefreshWithoutInput ==
    lastStep.applied # "threw"


\* C31: the listeners registered by _doUpdate are those of one update, the
\* one that began last: there is at most one set of tree-selection,
\* cursor, marker and configuration listeners, and it is bound to the
\* outline model of the most recently begun update
C31_ListenersOfOneUpdate ==
    /\ Cardinality(listeners) <= 1
    /\ listeners \subseteq {started}


\* C32: once _update has found no code editor with a model (_lastState is
\* undefined), the session of the editor that was active before holds no
\* listener and no running timer, and until an _update selects an editor
\* again every callback is made without an editor
C32_NoEditorReleasesTheSession ==
    /\ []((~ oracleDisposed /\ lastState = NoState)
             => (~ session.alive /\ ~ handle.armed))
    /\ [][(lastState = NoState /\ lastState' = NoState /\ calls' # calls)
             => lastCall'.editor = "none"]_vars


\* C33: the step in which the formatting request is answered changes the
\* model only if the edits are not empty and the model's version id is
\* the one taken when the format step started; with empty edits, or with
\* a model that changed meanwhile, the step leaves the model as it is
C33_FormatOnlyOnTheVersionTaken ==
    [][(fmt.request = "pending" /\ fmt'.request = "done"
           /\ (modelVersion' # modelVersion \/ edited' # edited))
          => /\ fmt'.edits = "nonEmpty"
             /\ modelVersion = fmt.versionNow
             /\ edited' = edited \cup {"FormatOnSave"}]_vars

\* the request was answered in time with edits, the model had changed
\* since the step started, and the edits were not applied
C33_Witness ==
    /\ fmt.edits = "nonEmpty"
    /\ promise["FormatOnSave"] = "resolved"
    /\ "FormatOnSave" \notin edited
    /\ modelVersion # fmt.versionNow


\* the last line of a text that has a character other than whitespace, 0
\* if there is none
LastContentLine(text) ==
    LET content == {i \in 1..Len(text) :
                       \E j \in 1..Len(text[i]) : text[i][j] # " "}
    IN  IF content = {} THEN 0
        ELSE CHOOSE i \in content : \A j \in content : j <= i

\* the line TrimFinalNewLines keeps up to: the last line with content or,
\* on an auto save, the highest cursor line if that is further down
KeptUpTo(text, saveReason, cursorLines) ==
    LET k == LastContentLine(text)
        c == IF saveReason = "AUTO" /\ cursorLines # {}
             THEN CHOOSE l \in cursorLines : \A m \in cursorLines : m <= l
             ELSE 0
    IN  IF c > k THEN c ELSE k

\* C34: TrimFinalNewLines with its setting on leaves a text of one line
\* as it is; any other text keeps its lines 1..k, k being the greater of
\* the last line with content and, on an auto save, the highest cursor
\* line, and if it had more lines what follows line k becomes exactly one
\* empty line; on an auto save no line up to a cursor's line changes or
\* goes
C34_TrimKeepsContentAndCursorLines ==
    (lastPush.by = "TrimFinalNewLines" /\ lastPush.on) =>
        LET before == lastPush.before
            n == Len(before)
            k == KeptUpTo(before, textReason, lastPush.cursors)
        IN  /\ n = 1 => lines = before
            /\ n > 1 =>
                  /\ k <= n
                  /\ SubSeq(lines, 1, k) = SubSeq(before, 1, k)
                  /\ n > k => lines = SubSeq(before, 1, k) \o << <<>> >>
                  /\ n = k => lines = before
            /\ textReason = "AUTO" =>
                  \A l \in lastPush.cursors :
                      SubSeq(lines, 1, l) = SubSeq(before, 1, l)

\* an auto save trimmed what followed the line of a cursor that stood
\* below the last line with content
C34_Witness ==
    /\ lastPush.by = "TrimFinalNewLines" /\ lastPush.on
    /\ textReason = "AUTO"
    /\ lastPush.cursors # {}
    /\ KeptUpTo(lastPush.before, textReason, lastPush.cursors)
           > LastContentLine(lastPush.before)
    /\ LastContentLine(lastPush.before) > 0
    /\ lastPush.pushed

\* C35: after FinalNewLine and TrimFinalNewLines of an explicit save, both
\* settings on, a text with content is its lines up to the last line with
\* content followed by exactly one empty line; and if the save before was
\* such a save too, this one pushed no edit
C35_NewlinePairIsIdempotent ==
    (textPc = "done" /\ textReason = "EXPLICIT"
        /\ pushes.on = <<TRUE, TRUE>>) =>
        LET k == LastContentLine(linesAtSave) IN
        /\ k > 0 => lines = SubSeq(linesAtSave, 1, k) \o << <<>> >>
        /\ pushes.before = "both" => ~ pushes.pushed

\* the pair ran a second time on a text with content that the first run
\* had left, and pushed nothing
C35_Witness ==
    /\ textPc = "done" /\ textReason = "EXPLICIT"
    /\ pushes.on = <<TRUE, TRUE>>
    /\ pushes.before = "both"
    /\ LastContentLine(lines) > 0
    /\ ~ pushes.pushed


\* C36: nothing is sent to the webview before 'webview-ready' arrived;
\* every call of _send is waiting, was sent once, or threw into
\* console.error, and never two of these; what was sent was sent in the
\* order of the calls and before everything that still waits; a callback
\* throws only on a disposed element, and once the element is disposed
\* nothing more is sent
C36_SendsWaitForReadyInOrder ==
    /\ [](/\ ready = "pending" => (sent = <<>> /\ caught = {})
          /\ \A i, j \in 1..Len(sent) : i < j => sent[i].id < sent[j].id
          /\ \A i \in 1..Len(sent), j \in 1..Len(sendQueue) :
                sent[i].id < sendQueue[j].id
          /\ { sent[i].id : i \in 1..Len(sent) }
                \cup { sendQueue[i].id : i \in 1..Len(sendQueue) }
                \cup caught = 1..requested
          /\ Len(sent) + Len(sendQueue) + Cardinality(caught) = requested
          /\ caught # {} => webDisposed)
    /\ [][webDisposed => sent' = sent]_vars

\* two messages asked for before the webview was ready were sent in
\* their order, and a later one came due on the disposed element
C36_Witness ==
    /\ Len(sent) = 2
    /\ sent[1].early /\ sent[2].early
    /\ sent[1].channel # sent[2].channel
    /\ caught # {}

\* C37: with allowSvgs false, a request for an .svg path that is not a
\* file request is cancelled exactly if its authority is not in the
\* svgWhiteList of the content options the element has now, and a
\* cancelled request sends the message 'vscode-did-block-svg'
C37_SvgFollowsCurrentOptions ==
    (lastRequest.made /\ ~ allowSvgs /\ lastRequest.svg
        /\ lastRequest.scheme # "file") =>
        /\ lastRequest.cancelled <=>
               ~ (/\ contentOptions.defined
                  /\ toLowerCase(lastRequest.authority)
                         \in contentOptions.list)
        /\ lastRequest.cancelled =>
               /\ lastRequest.notified
               /\ sendQueue # <<>>
               /\ sendQueue[Len(sendQueue)].channel = "message"

\* C38: initialize() initializes at most once: however many times it is
\* called, also while the initialization is in progress, every call
\* returns the one promise of the one run of doInitialize(), and the
\* SQLite storage is never created, init()-ed or subscribed twice: once
\* globalStorageExists has resolved, each has happened exactly once
C38_InitializeInitializesOnce ==
    /\ doInitializeRuns <= 1
    /\ initializeCalls > 0 => promisesReturned = {1}
    /\ storageSetups.created <= 1
    /\ storageSetups.inits <= 1
    /\ storageSetups.subscribed <= 1
    /\ initializePromise \in {"init", "migrating", "resolved", "rejected"}
           => storageSetups = [created |-> 1, inits |-> 1, subscribed |-> 1]

\* initialize() was called again while this.storage.init() was pending,
\* and once more: the storage was set up once
C38_Witness ==
    /\ initializeCalls = MaxInitCalls
    /\ initializePromise = "init"
    /\ promisesReturned = {1}
    /\ storageSetups.created = 1

====
